---- MODULE Spec2Model ----
(***************************************************************************)
(* pycaching.cache: the Cache entity.  Its attributes are populated on     *)
(* demand (the lazy_loaded protocol around every optional attribute),      *)
(* validated by the property setters, filled by load() from the cache      *)
(* details page, and its child collections are produced by the generators  *)
(* load_logbook() and load_trackables().  Type and Size normalise the      *)
(* icon-filename tokens and the text labels of the site.                   *)
(***************************************************************************)
EXTENDS Integers, Sequences, FiniteSets, TLC

\* the one element of a set of one.  Only({ e(v) : v \in {x} }) is e(x) with
\* x evaluated once.
Only(S) == CHOOSE e \in S : TRUE

(***************************************************************************)
(* Python values.  Every value carries its Python type in t; a str is      *)
(* the tuple of its characters, a float is counted in hundredths, a dict   *)
(* is a function from its keys, a list is a tuple.                         *)
(***************************************************************************)
Str(cs) == [t |-> "str", v |-> cs]

Bool(b) == [t |-> "bool", v |-> b]

Int_(n) == [t |-> "int", v |-> n]

Float(h) == [t |-> "float", v |-> h]

None == [t |-> "NoneType"]

TypeV(m) == [t |-> "Type", v |-> m]

SizeV(m) == [t |-> "Size", v |-> m]

PointV(p) == [t |-> "Point", v |-> p]

DateV(d) == [t |-> "date", v |-> d]

Dict(f) == [t |-> "dict", v |-> f]

List(s) == [t |-> "list", v |-> s]

(***************************************************************************)
(* The outcome of a call: a returned value, or the class of the exception  *)
(* it raised.                                                              *)
(***************************************************************************)
Ok(val) == [exc |-> "none", val |-> val]

Raise(e) == [exc |-> e]

(***************************************************************************)
(* str methods used by the setters and by from_string.                     *)
(***************************************************************************)
LowerChars == <<"a", "b", "c", "d", "e", "f", "g", "h", "i", "j", "k", "l", "m", "n", "o", "p", "q", "r", "s", "t", "u", "v", "w", "x", "y", "z">>

UpperChars == <<"A", "B", "C", "D", "E", "F", "G", "H", "I", "J", "K", "L", "M", "N", "O", "P", "Q", "R", "S", "T", "U", "V", "W", "X", "Y", "Z">>

Digits == <<"0", "1", "2", "3", "4", "5", "6", "7", "8", "9">>

Whitespace == {" ", "\n", "\t"}

IndexIn(chars, c) ==
    IF \E i \in DOMAIN chars : chars[i] = c
    THEN CHOOSE i \in DOMAIN chars : chars[i] = c
    ELSE 0

upper_char(c) ==
    IF IndexIn(LowerChars, c) = 0 THEN c ELSE UpperChars[IndexIn(LowerChars, c)]

lower_char(c) ==
    IF IndexIn(UpperChars, c) = 0 THEN c ELSE LowerChars[IndexIn(UpperChars, c)]

upper(s) == Only({ [i \in 1..Len(v) |-> upper_char(v[i])] : v \in {s} })

lower(s) == Only({ [i \in 1..Len(v) |-> lower_char(v[i])] : v \in {s} })

lstrip(s) ==
    Only({ IF \A i \in 1..Len(v) : v[i] \in Whitespace THEN <<>>
           ELSE SubSeq(v, CHOOSE i \in 1..Len(v) :
                              /\ v[i] \notin Whitespace
                              /\ \A j \in 1..(i - 1) : v[j] \in Whitespace,
                       Len(v)) : v \in {s} })

rstrip(s) ==
    Only({ IF \A i \in 1..Len(v) : v[i] \in Whitespace THEN <<>>
           ELSE SubSeq(v, 1, CHOOSE i \in 1..Len(v) :
                                 /\ v[i] \notin Whitespace
                                 /\ \A j \in (i + 1)..Len(v) : v[j] \in Whitespace)
           : v \in {s} })

strip(s) == rstrip(lstrip(s))

startswith(s, prefix) ==
    \E v \in {s}, p \in {prefix} :
        Len(v) >= Len(p) /\ SubSeq(v, 1, Len(p)) = p

\* s.replace(old, ""): every non-overlapping occurrence, left to right
RECURSIVE replace(_, _)
replace(s, old) ==
    Only({ IF Len(v) < Len(o) THEN v
           ELSE IF SubSeq(v, 1, Len(o)) = o
                THEN replace(SubSeq(v, Len(o) + 1, Len(v)), o)
                ELSE <<Head(v)>> \o replace(Tail(v), o)
           : v \in {s}, o \in {old} })

IsDigit(c) == IndexIn(Digits, c) # 0

AllDigits(s) == \E v \in {s} : v # <<>> /\ \A i \in 1..Len(v) : IsDigit(v[i])

RECURSIVE DigitsValue(_)
DigitsValue(s) ==
    Only({ IF v = <<>> THEN 0
           ELSE 10 * DigitsValue(SubSeq(v, 1, Len(v) - 1))
                + (IndexIn(Digits, v[Len(v)]) - 1)
           : v \in {s} })

RECURSIVE DigitsOf(_)
DigitsOf(n) ==
    Only({ IF v < 10 THEN <<Digits[v + 1]>>
           ELSE DigitsOf(v \div 10) \o <<Digits[(v % 10) + 1]>>
           : v \in {n} })

(***************************************************************************)
(* The builtins str(), bool(), int() and float() on the values above.      *)
(***************************************************************************)
\* the text of a float h (hundredths, h >= 0): "1.5", "1.25"
FloatDigits(h) ==
    DigitsOf(h \div 100) \o <<".">>
    \o (IF h % 10 = 0 THEN <<Digits[((h % 100) \div 10) + 1]>>
        ELSE <<Digits[((h % 100) \div 10) + 1], Digits[(h % 10) + 1]>>)

PyStr(value) ==
    Only({ CASE x.t = "str" -> x.v
             [] x.t = "NoneType" -> <<"N", "o", "n", "e">>
             [] x.t = "bool" -> IF x.v THEN <<"T", "r", "u", "e">>
                                       ELSE <<"F", "a", "l", "s", "e">>
             [] x.t = "int" -> IF x.v < 0 THEN <<"-">> \o DigitsOf(-x.v)
                                          ELSE DigitsOf(x.v)
             [] x.t = "float" -> IF x.v < 0 THEN <<"-">> \o FloatDigits(-x.v)
                                            ELSE FloatDigits(x.v)
             [] x.t \in {"Type", "Size"} -> <<x.t, ".", x.v>>
             [] OTHER -> <<"<", x.t, ">">>
           : x \in {value} })

PyBool(value) ==
    \E x \in {value} :
        CASE x.t = "bool" -> x.v
          [] x.t = "NoneType" -> FALSE
          [] x.t \in {"int", "float"} -> x.v # 0
          [] x.t = "str" -> x.v # <<>>
          [] x.t = "dict" -> DOMAIN x.v # {}
          [] x.t = "list" -> x.v # <<>>
          [] OTHER -> TRUE

\* the sign and the digits of a numeric text: s is stripped
Sign(s) == IF s # <<>> /\ Head(s) = "-" THEN -1 ELSE 1

Unsigned(s) == IF s # <<>> /\ Head(s) \in {"-", "+"} THEN Tail(s) ELSE s

ParseInt(s) ==
    IF AllDigits(Unsigned(s)) THEN Ok(Sign(s) * DigitsValue(Unsigned(s)))
    ELSE Raise("ValueError")

\* "d", "d.d" and "d.dd", the forms the site sends, in hundredths
ParseDecimal(d, dot) ==
    Only({ IF /\ (whole # <<>> \/ frac # <<>>)
              /\ \A i \in 1..Len(whole) : IsDigit(whole[i])
              /\ \A i \in 1..Len(frac) : IsDigit(frac[i])
              /\ Len(frac) <= 2
           THEN Ok(100 * DigitsValue(whole)
                   + (IF Len(frac) = 1 THEN 10 * DigitsValue(frac)
                      ELSE DigitsValue(frac)))
           ELSE Raise("ValueError")
           : whole \in {SubSeq(d, 1, dot - 1)}, frac \in {SubSeq(d, dot + 1, Len(d))} })

ParseFloat(s) ==
    Only({ IF r.exc # "none" THEN r ELSE Ok(Sign(s) * r.val)
           : r \in { Only({ ParseDecimal(d, IF IndexIn(d, ".") = 0 THEN Len(d) + 1
                                            ELSE IndexIn(d, "."))
                            : d \in {Unsigned(s)} }) } })

\* int(x): truncation of a float, the digits of a str
PyInt(value) ==
    Only({ CASE x.t = "int" -> Ok(x.v)
             [] x.t = "bool" -> Ok(IF x.v THEN 1 ELSE 0)
             [] x.t = "float" -> Ok(IF x.v < 0 THEN -((-x.v) \div 100) ELSE x.v \div 100)
             [] x.t = "str" -> Only({ ParseInt(s) : s \in {strip(x.v)} })
             [] OTHER -> Raise("TypeError")
           : x \in {value} })

\* float(x), in hundredths
PyFloat(value) ==
    Only({ CASE x.t = "float" -> Ok(x.v)
             [] x.t = "int" -> Ok(100 * x.v)
             [] x.t = "bool" -> Ok(IF x.v THEN 100 ELSE 0)
             [] x.t = "str" -> Only({ ParseFloat(s) : s \in {strip(x.v)} })
             [] OTHER -> Raise("TypeError")
           : x \in {value} })

(***************************************************************************)
(* class Type: the members by value (the icon filename), aliases folded    *)
(* onto the member they name.                                              *)
(***************************************************************************)
TypeByValue ==
    ("2" :> "traditional") @@ ("3" :> "multicache") @@ ("8" :> "mystery")
    @@ ("5" :> "letterbox") @@ ("6" :> "event") @@ ("mega" :> "mega_event")
    @@ ("giga" :> "giga_event") @@ ("137" :> "earthcache") @@ ("13" :> "cito")
    @@ ("11" :> "webcam") @@ ("4" :> "virtual") @@ ("1858" :> "wherigo")
    @@ ("10Years_32" :> "lost_and_found_event") @@ ("ape_32" :> "project_ape")
    @@ ("HQ_32" :> "groundspeak_hq") @@ ("1304" :> "gps_adventures_exhibit")
    @@ ("4738" :> "groundspeak_block_party") @@ ("12" :> "locationless")

Type_from_filename(filename) ==
    Only({ IF f \in DOMAIN TypeByValue THEN Ok(TypeV(TypeByValue[f]))
           ELSE Raise("ValueError")
           : f \in { IF filename = "earthcache" THEN "137" ELSE filename } })

name_mapping(name) ==
    CASE name = <<"t", "r", "a", "d", "i", "t", "i", "o", "n", "a", "l">>
            -> "traditional"
      [] name = <<"m", "u", "l", "t", "i", "-", "c", "a", "c", "h", "e">>
            -> "multicache"
      [] name = <<"m", "y", "s", "t", "e", "r", "y">>
            -> "mystery"
      [] name = <<"u", "n", "k", "n", "o", "w", "n">>
            -> "mystery"
      [] name = <<"l", "e", "t", "t", "e", "r", "b", "o", "x", " ", "h", "y", "b", "r", "i", "d">>
            -> "letterbox"
      [] name = <<"e", "v", "e", "n", "t">>
            -> "event"
      [] name = <<"m", "e", "g", "a", "-", "e", "v", "e", "n", "t">>
            -> "mega_event"
      [] name = <<"g", "i", "g", "a", "-", "e", "v", "e", "n", "t">>
            -> "giga_event"
      [] name = <<"e", "a", "r", "t", "h", "c", "a", "c", "h", "e">>
            -> "earthcache"
      [] name = <<"c", "i", "t", "o">>
            -> "cito"
      [] name = <<"c", "a", "c", "h", "e", " ", "i", "n", " ", "t", "r", "a", "s", "h", " ", "o", "u", "t", " ", "e", "v", "e", "n", "t">>
            -> "cito"
      [] name = <<"w", "e", "b", "c", "a", "m">>
            -> "webcam"
      [] name = <<"v", "i", "r", "t", "u", "a", "l">>
            -> "virtual"
      [] name = <<"w", "h", "e", "r", "i", "g", "o">>
            -> "wherigo"
      [] name = <<"l", "o", "s", "t", " ", "a", "n", "d", " ", "f", "o", "u", "n", "d", " ", "e", "v", "e", "n", "t">>
            -> "lost_and_found_event"
      [] name = <<"p", "r", "o", "j", "e", "c", "t", " ", "a", "p", "e">>
            -> "project_ape"
      [] name = <<"g", "r", "o", "u", "n", "d", "s", "p", "e", "a", "k", " ", "h", "q">>
            -> "groundspeak_hq"
      [] name = <<"g", "p", "s", " ", "a", "d", "v", "e", "n", "t", "u", "r", "e", "s", " ", "e", "x", "h", "i", "b", "i", "t">>
            -> "gps_adventures_exhibit"
      [] name = <<"g", "r", "o", "u", "n", "d", "s", "p", "e", "a", "k", " ", "b", "l", "o", "c", "k", " ", "p", "a", "r", "t", "y">>
            -> "groundspeak_block_party"
      [] name = <<"l", "o", "c", "a", "t", "i", "o", "n", "l", "e", "s", "s", " ", "(", "r", "e", "v", "e", "r", "s", "e", ")">>
            -> "locationless"
      [] OTHER -> "KeyError"

Type_from_string(name) ==
    IF name.t # "str" THEN Raise("AttributeError")
    ELSE Only({ IF m = "KeyError" THEN Raise("errors.ValueError") ELSE Ok(TypeV(m))
                : m \in { Only({ name_mapping(n) : n \in {
                     strip(lower(replace(
                        replace(name.v, <<" ", "G", "e", "o", "c", "a", "c", "h", "e">>),
                        <<" ", "C", "a", "c", "h", "e">>))) } }) } })

(***************************************************************************)
(* class Size: from_filename looks a member up by name, from_string by     *)
(* value.                                                                  *)
(***************************************************************************)
SizeNames ==
    {"micro", "small", "regular", "large", "not_chosen", "virtual", "other"}

SizeByValue(name) ==
    CASE name = <<"m", "i", "c", "r", "o">> -> "micro"
      [] name = <<"s", "m", "a", "l", "l">> -> "small"
      [] name = <<"r", "e", "g", "u", "l", "a", "r">> -> "regular"
      [] name = <<"l", "a", "r", "g", "e">> -> "large"
      [] name = <<"n", "o", "t", " ", "c", "h", "o", "s", "e", "n">> -> "not_chosen"
      [] name = <<"v", "i", "r", "t", "u", "a", "l">> -> "virtual"
      [] name = <<"o", "t", "h", "e", "r">> -> "other"
      [] OTHER -> "ValueError"

Size_from_filename(filename) ==
    IF filename \in SizeNames THEN Ok(SizeV(filename)) ELSE Raise("KeyError")

Size_from_string(name) ==
    IF name.t # "str" THEN Raise("AttributeError")
    ELSE Only({ IF m = "ValueError" THEN Raise("errors.ValueError") ELSE Ok(SizeV(m))
                : m \in { Only({ SizeByValue(n) : n \in {lower(strip(name.v))} }) } })

_possible_attributes ==
    { <<"a", "b", "a", "n", "d", "o", "n", "e", "d", "b", "u", "i", "l", "d", "i", "n", "g">>,
      <<"a", "v", "a", "i", "l", "a", "b", "l", "e">>,
      <<"b", "i", "c", "y", "c", "l", "e", "s">>,
      <<"b", "o", "a", "t">>,
      <<"c", "a", "m", "p", "f", "i", "r", "e", "s">>,
      <<"c", "a", "m", "p", "i", "n", "g">>,
      <<"c", "l", "i", "f", "f">>,
      <<"c", "l", "i", "m", "b", "i", "n", "g">>,
      <<"c", "o", "w">>,
      <<"d", "a", "n", "g", "e", "r">>,
      <<"d", "a", "n", "g", "e", "r", "o", "u", "s", "a", "n", "i", "m", "a", "l", "s">>,
      <<"d", "o", "g", "s">>,
      <<"f", "e", "e">>,
      <<"f", "i", "e", "l", "d", "_", "p", "u", "z", "z", "l", "e">>,
      <<"f", "i", "r", "s", "t", "a", "i", "d">>,
      <<"f", "l", "a", "s", "h", "l", "i", "g", "h", "t">>,
      <<"f", "o", "o", "d">>,
      <<"f", "r", "o", "n", "t", "y", "a", "r", "d">>,
      <<"f", "u", "e", "l">>,
      <<"g", "e", "o", "t", "o", "u", "r">>,
      <<"h", "i", "k", "e", "_", "l", "o", "n", "g">>,
      <<"h", "i", "k", "e", "_", "m", "e", "d">>,
      <<"h", "i", "k", "e", "_", "s", "h", "o", "r", "t">>,
      <<"h", "i", "k", "i", "n", "g">>,
      <<"h", "o", "r", "s", "e", "s">>,
      <<"h", "u", "n", "t", "i", "n", "g">>,
      <<"j", "e", "e", "p", "s">>,
      <<"k", "i", "d", "s">>,
      <<"l", "a", "n", "d", "f">>,
      <<"m", "i", "n", "e">>,
      <<"m", "o", "t", "o", "r", "c", "y", "c", "l", "e", "s">>,
      <<"n", "i", "g", "h", "t">>,
      <<"n", "i", "g", "h", "t", "c", "a", "c", "h", "e">>,
      <<"o", "n", "e", "h", "o", "u", "r">>,
      <<"p", "a", "r", "k", "i", "n", "g">>,
      <<"p", "a", "r", "k", "n", "g", "r", "a", "b">>,
      <<"p", "a", "r", "t", "n", "e", "r", "s", "h", "i", "p">>,
      <<"p", "h", "o", "n", "e">>,
      <<"p", "i", "c", "n", "i", "c">>,
      <<"p", "o", "i", "s", "o", "n", "o", "a", "k">>,
      <<"p", "u", "b", "l", "i", "c">>,
      <<"q", "u", "a", "d", "s">>,
      <<"r", "a", "p", "p", "e", "l", "l", "i", "n", "g">>,
      <<"r", "e", "s", "t", "r", "o", "o", "m", "s">>,
      <<"r", "v">>,
      <<"s", "-", "t", "o", "o", "l">>,
      <<"s", "c", "e", "n", "i", "c">>,
      <<"s", "c", "u", "b", "a">>,
      <<"s", "e", "a", "s", "o", "n", "a", "l">>,
      <<"s", "k", "i", "i", "s">>,
      <<"s", "n", "o", "w", "m", "o", "b", "i", "l", "e", "s">>,
      <<"s", "n", "o", "w", "s", "h", "o", "e", "s">>,
      <<"s", "t", "e", "a", "l", "t", "h">>,
      <<"s", "t", "r", "o", "l", "l", "e", "r">>,
      <<"s", "w", "i", "m", "m", "i", "n", "g">>,
      <<"t", "e", "a", "m", "w", "o", "r", "k">>,
      <<"t", "h", "o", "r", "n">>,
      <<"t", "i", "c", "k", "s">>,
      <<"t", "o", "u", "r", "i", "s", "t", "o", "k">>,
      <<"t", "r", "e", "e", "c", "l", "i", "m", "b", "i", "n", "g">>,
      <<"u", "v">>,
      <<"w", "a", "d", "i", "n", "g">>,
      <<"w", "a", "t", "e", "r">>,
      <<"w", "h", "e", "e", "l", "c", "h", "a", "i", "r">>,
      <<"w", "i", "n", "t", "e", "r">>,
      <<"w", "i", "r", "e", "l", "e", "s", "s", "b", "e", "a", "c", "o", "n">> }

(***************************************************************************)
(* Helpers of the package that cache.py imports: rot13 and parse_date      *)
(* (pycaching.util), Point.from_string (pycaching.geo).  parse_date and    *)
(* Point.from_string accept the texts listed here and reject every other.  *)
(***************************************************************************)
rot13_char(c) ==
    IF IndexIn(LowerChars, c) # 0
    THEN LowerChars[((IndexIn(LowerChars, c) + 12) % 26) + 1]
    ELSE IF IndexIn(UpperChars, c) # 0
         THEN UpperChars[((IndexIn(UpperChars, c) + 12) % 26) + 1]
         ELSE c

rot13(s) == Only({ [i \in 1..Len(v) |-> rot13_char(v[i])] : v \in {s} })

DateTexts == { <<"1", "/", "2", "/", "1", "5">>, <<"3", "/", "4", "/", "1", "4">> }

parse_date(raw) ==
    Only({ IF text \in DateTexts THEN Ok(DateV(text)) ELSE Raise("errors.ValueError")
           : text \in {strip(raw)} })

PointTexts == { <<"N", "4", "9", " ", "E", "1", "4">>, <<"N", "5", "0", " ", "E", "1", "5">> }

Point_from_string(text) ==
    IF text \in PointTexts THEN Ok(PointV(text)) ELSE Raise("errors.ValueError")

(***************************************************************************)
(* The Cache object.  self maps every attribute to the set of its values:  *)
(* empty while the instance has no such attribute, one value once it has   *)
(* been assigned (whatever the value: None, False, 0 and "" are values).   *)
(***************************************************************************)
LazyAttrs ==
    {"name", "location", "type", "state", "found", "size", "difficulty",
     "terrain", "author", "hidden", "attributes", "summary", "description",
     "hint", "favorites", "logbook_token", "trackable_page_url", "log_page_url"}

Attrs == LazyAttrs \cup {"wp", "url", "pm_only", "logbook", "trackables"}

known_kwargs == LazyAttrs \cup {"pm_only", "url"}

NoAttrs == [a \in Attrs |-> {}]

hasattr(self, a) == self[a] # {}

getattr(self, a) == CHOOSE x \in self[a] : TRUE

(***************************************************************************)
(* The property setters: the value stored for an assigned value, or the    *)
(* exception raised.                                                       *)
(***************************************************************************)
\* a setter that leaves the blanks around the waypoint
wp_setter_no_strip(wp) ==
    Only({ IF ~startswith(w, <<"G", "C">>) THEN Raise("errors.ValueError")
           ELSE Ok(Str(w))
           : w \in {upper(PyStr(wp))} })

wp_setter(wp) ==
    Only({ IF ~startswith(w, <<"G", "C">>) THEN Raise("errors.ValueError")
           ELSE Ok(Str(w))
           : w \in {strip(upper(PyStr(wp)))} })

text_setter(text) == Ok(Str(strip(PyStr(text))))

location_setter(location) ==
    IF location.t = "str" THEN Point_from_string(location.v)
    ELSE IF location.t # "Point" THEN Raise("errors.ValueError")
         ELSE Ok(location)

type_setter(type) ==
    IF type.t # "Type" THEN Type_from_string(type) ELSE Ok(type)

bool_setter(b) == Ok(Bool(PyBool(b)))

size_setter(size) ==
    IF size.t # "Size" THEN Size_from_string(size) ELSE Ok(size)

\* a setter that takes every number from 1 to 5
rating_setter_any_fraction(rating) ==
    Only({ IF f.exc # "none" THEN f
           ELSE IF f.val < 100 \/ f.val > 500
                THEN Raise("errors.ValueError")
                ELSE Ok(Float(f.val))
           : f \in {PyFloat(rating)} })

\* difficulty and terrain: float(), then 1 <= x <= 5 and x * 10 % 5 = 0
rating_setter(rating) ==
    Only({ IF f.exc # "none" THEN f
           ELSE IF f.val < 100 \/ f.val > 500 \/ f.val % 50 # 0
                THEN Raise("errors.ValueError")
                ELSE Ok(Float(f.val))
           : f \in {PyFloat(rating)} })

hidden_setter(hidden) ==
    IF hidden.t = "str" THEN parse_date(hidden.v)
    ELSE IF hidden.t # "date" THEN Raise("errors.ValueError")
         ELSE Ok(hidden)

\* the known names among the keys, each with the value of its key; the keys
\* of a model dict normalise to distinct names
attributes_setter(attributes) ==
    IF attributes.t # "dict" THEN Raise("errors.ValueError")
    ELSE Only({ Ok(Dict([n \in {p[1] : p \in kept} |->
                           attributes.v[(CHOOSE p \in kept : p[1] = n)[2]]]))
                : kept \in { { p \in {<<lower(strip(k)), k>> : k \in DOMAIN attributes.v} :
                                 p[1] \in _possible_attributes } } })

favorites_setter(favorites) ==
    Only({ IF i.exc # "none" THEN i ELSE Ok(Int_(i.val))
           : i \in {PyInt(favorites)} })

plain_setter(x) == Ok(x)

setter(a, x) ==
    CASE a = "wp" -> wp_setter(x)
      [] a \in {"name", "author", "summary", "description", "hint"} -> text_setter(x)
      [] a = "location" -> location_setter(x)
      [] a = "type" -> type_setter(x)
      [] a \in {"state", "found", "pm_only"} -> bool_setter(x)
      [] a = "size" -> size_setter(x)
      [] a \in {"difficulty", "terrain"} -> rating_setter(x)
      [] a = "hidden" -> hidden_setter(x)
      [] a = "attributes" -> attributes_setter(x)
      [] a = "favorites" -> favorites_setter(x)
      [] OTHER -> plain_setter(x)

\* an assignment that keeps only what counts as true
setattr_if_true(self, a, x) ==
    Only({ IF r.exc # "none" THEN [exc |-> r.exc, self |-> self]
           ELSE IF ~PyBool(r.val) THEN [exc |-> "none", self |-> [self EXCEPT ![a] = {}]]
                ELSE [exc |-> "none", self |-> [self EXCEPT ![a] = {r.val}]]
           : r \in {setter(a, x)} })

\* setattr(self, a, x): the object after the assignment and what it raised
setattr(self, a, x) ==
    Only({ IF r.exc # "none" THEN [exc |-> r.exc, self |-> self]
           ELSE [exc |-> "none", self |-> [self EXCEPT ![a] = {r.val}]]
           : r \in {setter(a, x)} })

(***************************************************************************)
(* What the site serves for the cache: the cache details page as load()    *)
(* reads it.  transport is "error" when _request raises (for instance a    *)
(* 404); the other fields are the raw texts and tokens that load() takes   *)
(* out of the markup before it converts them.                              *)
(***************************************************************************)
GoodDoc ==
    [ transport |-> "ok", PMOWarning |-> FALSE,
      wp |-> <<"G", "C", "1">>,
      name |-> <<" ", "A", " ">>,
      type |-> "2",
      author |-> <<"b", "o", "b">>,
      hidden |-> <<" ", "1", "/", "2", "/", "1", "5">>,
      location |-> <<"N", "4", "9", " ", "E", "1", "4">>,
      OldWarning |-> FALSE, FoundStatus |-> TRUE,
      D |-> <<"1", ".", "5">>, T |-> <<"3">>,
      size |-> "micro",
      attributes |-> Dict((<<"d", "o", "g", "s">> :> TRUE) @@ (<<"k", "i", "d", "s">> :> FALSE)),
      summary |-> <<"s">>,
      description |-> <<"<", "p", ">">>,
      hint |-> <<" ", "h", "i", " ">>,
      favorites |-> Str(<<"5">>),
      userToken |-> <<"T", "K">>,
      inventory_links |-> 3,
      trackables_href |-> <<".", ".", "/", "t", "r", "a", "c", "k">>,
      logButton |-> <<"/", "l", "o", "g">> ]

\* a disabled, unfound cache with nothing in it: every field that can be
\* empty, zero or absent is
BareDoc ==
    [ GoodDoc EXCEPT !.name = <<>>, !.author = <<>>, !.OldWarning = TRUE,
                     !.FoundStatus = FALSE, !.attributes = Dict(<<>>),
                     !.summary = <<>>, !.description = <<>>, !.hint = <<>>,
                     !.favorites = None, !.inventory_links = 2 ]

PMODoc == [ GoodDoc EXCEPT !.PMOWarning = TRUE ]

NotFoundDoc == [ GoodDoc EXCEPT !.transport = "error" ]

\* an icon that class Type does not list
NewIconDoc == [ GoodDoc EXCEPT !.type = "9" ]

\* the page of another cache: the address leads to it, or the site has
\* moved the listing
MovedDoc == [ GoodDoc EXCEPT !.wp = <<"G", "C", "2">> ]

Docs ==
    [ GoodDoc |-> GoodDoc, BareDoc |-> BareDoc, PMODoc |-> PMODoc,
      NotFoundDoc |-> NotFoundDoc, NewIconDoc |-> NewIconDoc, MovedDoc |-> MovedDoc ]

\* a request as the transport sees it: the resource, what names the cache
\* (the url or the waypoint), and the idx and num of a logbook page
Request(to, by, idx, num) == [to |-> to, by |-> by, idx |-> idx, num |-> num]

(***************************************************************************)
(* load(): the assignments of its "prettify data" part, in order.  Each    *)
(* is the attribute and the outcome of evaluating the right-hand side.     *)
(***************************************************************************)
trackable_page_url_of(doc) ==
    IF doc.inventory_links >= 3
    THEN Str(SubSeq(doc.trackables_href, 4, Len(doc.trackables_href)))
    ELSE None

\* found and ("Found It!" or "Attended" in found.text) or False: a present
\* block gives the literal "Found It!", whatever its text
found_of(doc) ==
    IF doc.FoundStatus THEN Str(<<"F", "o", "u", "n", "d", " ", "I", "t", "!">>)
    ELSE Bool(FALSE)

\* [float(...) for _ in D_T]: the list, or what the first failing float() raises
D_T_of(doc) ==
    Only({ IF d.exc # "none" THEN d
           ELSE IF t.exc # "none" THEN t
                ELSE Ok(<<Float(d.val), Float(t.val)>>)
           : d \in {PyFloat(Str(doc.D))}, t \in {PyFloat(Str(doc.T))} })

favorites_of(doc) ==
    IF doc.favorites.t = "NoneType" THEN Ok(Int_(0))
    ELSE Only({ IF i.exc # "none" THEN i ELSE Ok(Int_(i.val))
                : i \in {PyInt(doc.favorites)} })

detail_assignments(doc) ==
    Only({ << [a |-> "wp", rhs |-> Ok(Str(doc.wp))],
              [a |-> "name", rhs |-> Ok(Str(doc.name))],
              [a |-> "type", rhs |-> Type_from_filename(doc.type)],
              [a |-> "author", rhs |-> Ok(Str(doc.author))],
              [a |-> "hidden", rhs |-> parse_date(doc.hidden)],
              [a |-> "location", rhs |-> Point_from_string(doc.location)],
              [a |-> "state", rhs |-> Ok(Bool(~doc.OldWarning))],
              [a |-> "found", rhs |-> Ok(found_of(doc))],
              [a |-> "difficulty", rhs |-> IF dt.exc # "none" THEN dt ELSE Ok(dt.val[1])],
              [a |-> "terrain", rhs |-> IF dt.exc # "none" THEN dt ELSE Ok(dt.val[2])],
              [a |-> "size", rhs |-> Size_from_filename(doc.size)],
              [a |-> "attributes", rhs |-> Ok(doc.attributes)],
              [a |-> "summary", rhs |-> Ok(Str(doc.summary))],
              [a |-> "description", rhs |-> Ok(Str(doc.description))],
              [a |-> "hint", rhs |-> Ok(Str(rot13(strip(doc.hint))))],
              [a |-> "favorites", rhs |-> favorites_of(doc)] >>
           : dt \in {D_T_of(doc)} })

\* the assignments of the links without the last
link_assignments_no_log_page(doc) ==
    << [a |-> "logbook_token", rhs |-> Ok(Str(doc.userToken))],
       [a |-> "trackable_page_url", rhs |-> Ok(trackable_page_url_of(doc))] >>

\* the assignments of the links, the listing's only when there is one
link_assignments_url_if_any(doc) ==
    IF doc.inventory_links >= 3
    THEN << [a |-> "logbook_token", rhs |-> Ok(Str(doc.userToken))],
            [a |-> "trackable_page_url", rhs |-> Ok(trackable_page_url_of(doc))],
            [a |-> "log_page_url", rhs |-> Ok(Str(doc.logButton))] >>
    ELSE << [a |-> "logbook_token", rhs |-> Ok(Str(doc.userToken))],
            [a |-> "log_page_url", rhs |-> Ok(Str(doc.logButton))] >>

link_assignments(doc) ==
    << [a |-> "logbook_token", rhs |-> Ok(Str(doc.userToken))],
       [a |-> "trackable_page_url", rhs |-> Ok(trackable_page_url_of(doc))],
       [a |-> "log_page_url", rhs |-> Ok(Str(doc.logButton))] >>

\* the assignments with one for pm_only, from the marker of the page
load_assignments_pm_only(doc) ==
    detail_assignments(doc) \o link_assignments(doc)
    \o << [a |-> "pm_only", rhs |-> Ok(Bool(doc.PMOWarning))] >>

load_assignments(doc) == detail_assignments(doc) \o link_assignments(doc)

\* the assignments one after the other, up to the first that raises
RECURSIVE assign_all(_, _)
assign_all(self, steps) ==
    Only({ IF st = <<>> THEN [exc |-> "none", self |-> obj]
           ELSE IF st[1].rhs.exc # "none"
                THEN [exc |-> st[1].rhs.exc, self |-> obj]
                ELSE Only({ IF r.exc # "none" THEN r
                            ELSE assign_all(r.self, Tail(st))
                            : r \in {setattr(obj, st[1].a, st[1].rhs.val)} })
           : obj \in {self}, st \in {steps} })

(***************************************************************************)
(* load(): the object after the call, what it raised, and the requests it  *)
(* sent to the transport.                                                  *)
(***************************************************************************)
\* a choice of the address that takes the waypoint for granted
load_target_always_wp(self) ==
    IF hasattr(self, "url") THEN "url" ELSE "wp"

\* "pick url based on what info we have right now"
load_target(self) ==
    IF hasattr(self, "url") THEN "url"
    ELSE IF hasattr(self, "wp") THEN "wp"
         ELSE "none"

\* the part after the fetch, with the marker looked at after the assignments
load_page_marker_last(self, doc) ==
    Only({ IF doc.PMOWarning THEN [exc |-> "PMOnlyException", self |-> r.self] ELSE r
           : r \in {assign_all(self, load_assignments(doc))} })

\* the part of load() after the page has been fetched
load_page(self, doc) ==
    IF doc.PMOWarning
    THEN [exc |-> "PMOnlyException", self |-> self]
    ELSE assign_all(self, load_assignments(doc))

load(self, doc) ==
    Only({ IF by = "none"
           THEN \* raised inside the try, and re-raised by its except clause
                [exc |-> "LoadError", self |-> self, reqs |-> <<>>]
           ELSE IF doc.transport # "ok"
                THEN [exc |-> "LoadError", self |-> self,
                      reqs |-> <<Request("cache_details", by, 0, 0)>>]
                ELSE Only({ [exc |-> r.exc, self |-> r.self,
                             reqs |-> <<Request("cache_details", by, 0, 0)>>]
                            : r \in {load_page(self, doc)} })
           : by \in {load_target(self)} })

(***************************************************************************)
(* lazy_loaded (pycaching.util), the wrapper of every optional attribute:  *)
(* the value when the attribute is set; else, with a url or a waypoint to  *)
(* load from, one load() and the value again; a "cannot load" error in     *)
(* every other case.  loaded is what self.load() does when it is called;   *)
(* loads counts the calls made.                                            *)
(***************************************************************************)
lazy_loaded(self, a, loaded) ==
    IF hasattr(self, a)
    THEN [exc |-> "none", self |-> self, reqs |-> <<>>, loads |-> 0]
    ELSE IF ~hasattr(self, "url") /\ ~hasattr(self, "wp")
         THEN [exc |-> "LoadError", self |-> self, reqs |-> <<>>, loads |-> 0]
         ELSE Only({ [exc |-> IF l.exc = "none" /\ ~hasattr(l.self, a)
                              THEN "LoadError" ELSE l.exc,
                      self |-> l.self, reqs |-> l.reqs, loads |-> 1]
                     : l \in {loaded} })

(***************************************************************************)
(* __init__(geocaching, wp, **kwargs): wp is assigned unless it is None,   *)
(* then every known keyword.  The setters do not read each other's         *)
(* attributes, so the order of the keywords does not show in the result.   *)
(***************************************************************************)
RECURSIVE set_kwargs(_, _, _)
set_kwargs(self, kwargs, names) ==
    Only({ IF ns = {} THEN [exc |-> "none", self |-> obj]
           ELSE Only({ Only({ IF r.exc # "none" THEN r
                              ELSE set_kwargs(r.self, kwargs, ns \ {k})
                              : r \in {setattr(obj, k, kwargs[k])} })
                       : k \in {CHOOSE n \in ns : TRUE} })
           : obj \in {self}, ns \in {names} })

__init__(wp, kwargs) ==
    Only({ IF r.exc # "none" THEN r
           ELSE set_kwargs(r.self, kwargs, known_kwargs \cap DOMAIN kwargs)
           : r \in { IF wp.t # "NoneType" THEN setattr(NoAttrs, "wp", wp)
                      ELSE [exc |-> "none", self |-> NoAttrs] } })

\* the constructions of the model: a waypoint alone, a url alone
\* (from_trackable), neither, a name and a location (from_block), and
\* keywords whose values are all false, zero, empty or None
CtorCalls ==
    [ waypoint |-> [wp |-> Str(<<"g", "c", "1", " ">>), kwargs |-> <<>>],
      from_trackable |-> [wp |-> None, kwargs |-> ("url" :> Str(<<"/", "c">>))],
      nothing |-> [wp |-> None, kwargs |-> <<>>],
      from_block |->
         [wp |-> Str(<<"G", "C", "1">>),
          kwargs |-> ("name" :> Str(<<"A">>))
                     @@ ("location" :> PointV(<<"N", "4", "9", " ", "E", "1", "4">>))],
      keywords |->
         [wp |-> Str(<<"G", "C", "1">>),
          kwargs |-> ("state" :> Bool(FALSE)) @@ ("favorites" :> Int_(0))
                     @@ ("hint" :> Str(<<>>)) @@ ("trackable_page_url" :> None)
                     @@ ("pm_only" :> Int_(0))] ]

\* the object each construction gives
Constructed == [c \in DOMAIN CtorCalls |-> __init__(CtorCalls[c].wp, CtorCalls[c].kwargs)]

(***************************************************************************)
(* load_quick(): what the map server answers for the waypoint.  msg is     *)
(* the set holding the message of the envelope when it has one; data is    *)
(* the list of the records that match, each with the fields load_quick     *)
(* reads (and gc, the waypoint of the record, which it does not read).     *)
(***************************************************************************)
GoodQuick ==
    [ transport |-> "ok", status |-> "success", msg |-> {},
      data |-> << [ gc |-> Str(<<"G", "C", "1">>),
                    name |-> Str(<<" ", "Q", " ">>),
                    type |-> Str(<<"M", "u", "l", "t", "i", "-", "c", "a", "c", "h", "e">>),
                    available |-> Bool(TRUE),
                    container |-> Str(<<"S", "m", "a", "l", "l">>),
                    difficulty |-> Float(200), terrain |-> Str(<<"4", ".", "5">>),
                    hidden |-> Str(<<"3", "/", "4", "/", "1", "4">>),
                    owner |-> Str(<<"a", "n", "n">>),
                    fp |-> Int_(7), subrOnly |-> Bool(FALSE) ] >> ]

\* the server reports a failure and says why
FailedQuick ==
    [ transport |-> "ok", status |-> "failed", msg |-> {"no such cache"}, data |-> <<>> ]

\* two records match the waypoint
DoubleQuick == [ GoodQuick EXCEPT !.data = @ \o @ ]

\* a premium-only cache whose count of favorite points comes out below zero
NegativeQuick ==
    [ GoodQuick EXCEPT !.data[1].fp = Str(<<"-", "1">>),
                       !.data[1].subrOnly = Bool(TRUE) ]

QuickDocs ==
    [ GoodQuick |-> GoodQuick, FailedQuick |-> FailedQuick,
      DoubleQuick |-> DoubleQuick, NegativeQuick |-> NegativeQuick ]

\* the assignments of load_quick without the last
quick_assignments_no_pm_only(data) ==
    << [a |-> "name", rhs |-> Ok(data.name)],
       [a |-> "type", rhs |-> Type_from_string(data.type)],
       [a |-> "state", rhs |-> Ok(data.available)],
       [a |-> "size", rhs |-> Size_from_string(data.container)],
       [a |-> "difficulty", rhs |-> Ok(data.difficulty)],
       [a |-> "terrain", rhs |-> Ok(data.terrain)],
       [a |-> "hidden", rhs |-> parse_date(data.hidden.v)],
       [a |-> "author", rhs |-> Ok(data.owner)],
       [a |-> "favorites", rhs |-> favorites_setter(data.fp)] >>

\* load_quick(): the assignments of its "prettify data" part, in order
quick_assignments(data) ==
    << [a |-> "name", rhs |-> Ok(data.name)],
       [a |-> "type", rhs |-> Type_from_string(data.type)],
       [a |-> "state", rhs |-> Ok(data.available)],
       [a |-> "size", rhs |-> Size_from_string(data.container)],
       [a |-> "difficulty", rhs |-> Ok(data.difficulty)],
       [a |-> "terrain", rhs |-> Ok(data.terrain)],
       [a |-> "hidden", rhs |-> parse_date(data.hidden.v)],
       [a |-> "author", rhs |-> Ok(data.owner)],
       \* int(data["fp"])
       [a |-> "favorites", rhs |-> favorites_setter(data.fp)],
       [a |-> "pm_only", rhs |-> Ok(data.subrOnly)] >>

\* load_quick(): the object after the call, what it raised and the
\* requests it sent.  A failure of the transport is not wrapped.
load_quick(self, res) ==
    IF ~hasattr(self, "wp")
    THEN \* params={"i": self.wp}
         [exc |-> "AttributeError", self |-> self, reqs |-> <<>>]
    ELSE IF res.transport # "ok"
         THEN [exc |-> "errors.Error", self |-> self,
               reqs |-> <<Request("map.details", "wp", 0, 0)>>]
         ELSE IF res.status = "failed" \/ Len(res.data) # 1
              THEN [exc |-> "LoadError", self |-> self,
                    reqs |-> <<Request("map.details", "wp", 0, 0)>>]
              ELSE Only({ [exc |-> r.exc, self |-> r.self,
                           reqs |-> <<Request("map.details", "wp", 0, 0)>>]
                          : r \in {assign_all(self, quick_assignments(res.data[1]))} })

(***************************************************************************)
(* post_log(l): the page with the form for a new log, and the call.        *)
(* options are the entries of the page's select box for the type of log,   *)
(* the first being the "- select type of log -" entry.                     *)
(***************************************************************************)
GoodLogPage ==
    [ transport |-> "ok",
      options |-> << [text |-> <<"-", " ", "s", "e", "l", "e", "c", "t", " ", "-">>,
                      value |-> "-1"],
                     [text |-> <<"F", "o", "u", "n", "d", " ", "i", "t">>, value |-> "2"],
                     [text |-> <<"W", "r", "i", "t", "e", " ", "n", "o", "t", "e">>,
                      value |-> "4"] >> ]

\* the page cannot be fetched
NoLogPage == [ GoodLogPage EXCEPT !.transport = "error" ]

\* the page as the owner of the cache gets it, with one more type of log
OwnerLogPage ==
    [ GoodLogPage EXCEPT !.options =
          Append(@, [text |-> <<"A", "r", "c", "h", "i", "v", "e">>, value |-> "5"]) ]

LogPages ==
    [ GoodLogPage |-> GoodLogPage, NoLogPage |-> NoLogPage,
      OwnerLogPage |-> OwnerLogPage ]

\* {o.get_text().lower(): o["value"] for o in options if o["value"] != "-1"}
valid_types(log_page) ==
    { lower(log_page.options[i].text) :
        i \in { j \in DOMAIN log_page.options : log_page.options[j].value # "-1" } }

\* a variant that looks at the text of the log after the page has been fetched
post_log_text_last(self, l, loaded, log_page) ==
    Only({ IF url.exc # "none" THEN url
           ELSE Only({ IF log_page.transport # "ok"
                       THEN [exc |-> "errors.Error", self |-> url.self,
                             reqs |-> rq, loads |-> url.loads]
                       ELSE IF ~PyBool(l.text) \/ l.type \notin valid_types(log_page)
                            THEN [exc |-> "errors.ValueError", self |-> url.self,
                                  reqs |-> rq, loads |-> url.loads]
                            ELSE [exc |-> "none", self |-> url.self,
                                  reqs |-> Append(rq, Request("log", "POST", 0, 0)),
                                  loads |-> url.loads]
                       : rq \in {Append(url.reqs, Request("log", "GET", 0, 0))} })
           : url \in {lazy_loaded(self, "log_page_url", loaded)} })

\* a variant that posts a log of any type
post_log_any_type(self, l, loaded, log_page) ==
    IF ~PyBool(l.text)
    THEN [exc |-> "errors.ValueError", self |-> self, reqs |-> <<>>, loads |-> 0]
    ELSE Only({ IF url.exc # "none" THEN url
                ELSE Only({ IF log_page.transport # "ok"
                            THEN [exc |-> "errors.Error", self |-> url.self,
                                  reqs |-> rq, loads |-> url.loads]
                            ELSE [exc |-> "none", self |-> url.self,
                                  reqs |-> Append(rq, Request("log", "POST", 0, 0)),
                                  loads |-> url.loads]
                            : rq \in {Append(url.reqs, Request("log", "GET", 0, 0))} })
                : url \in {lazy_loaded(self, "log_page_url", loaded)} })

\* post_log(l): loaded is what self.load() does if reading log_page_url
\* calls it.  The object after the call, what it raised, the requests sent
\* and the calls of load() made.
post_log(self, l, loaded, log_page) ==
    IF ~PyBool(l.text)
    THEN [exc |-> "errors.ValueError", self |-> self, reqs |-> <<>>, loads |-> 0]
    ELSE Only({ IF url.exc # "none" THEN url
                ELSE Only({ IF log_page.transport # "ok"
                            THEN [exc |-> "errors.Error", self |-> url.self,
                                  reqs |-> rq, loads |-> url.loads]
                            ELSE IF l.type \notin valid_types(log_page)
                                 THEN [exc |-> "errors.ValueError", self |-> url.self,
                                       reqs |-> rq, loads |-> url.loads]
                                 ELSE [exc |-> "none", self |-> url.self,
                                       reqs |-> Append(rq, Request("log", "POST", 0, 0)),
                                       loads |-> url.loads]
                            : rq \in {Append(url.reqs, Request("log", "GET", 0, 0))} })
                : url \in {lazy_loaded(self, "log_page_url", loaded)} })

(***************************************************************************)
(* What the site holds besides the page: logs entries in the logbook, in   *)
(* the order it serves them, and trackables links on the listing page.     *)
(* page_size is the number of entries the site puts on a logbook page; 0   *)
(* stands for a site that serves as many as the request's num asks for.    *)
(***************************************************************************)
Min(a, b) == IF a < b THEN a ELSE b

LogData(i) ==
    [LogType |-> "Found it", LogText |-> <<"#">> \o DigitsOf(i),
     Visited |-> <<"1", "/", "2", "/", "1", "5">>, UserName |-> <<"b", "o", "b">>]

\* res["data"] of the request for page idx with num entries a page
logbook_page(src, idx, num) ==
    Only({ [i \in 1..(Min(idx * s, src.logs) - Min((idx - 1) * s, src.logs)) |->
               LogData((idx - 1) * s + i)]
           : s \in {IF src.page_size = 0 THEN num ELSE src.page_size} })

\* the links of the second table of the listing page: one that is not a
\* trackable's, then one for each trackable
trackable_links(src) ==
    <<[href |-> <<"m", "a", "p">>, text |-> <<"M">>]>>
    \o [i \in 1..src.trackables |->
           [href |-> <<"t", "r", "a", "c", "k", "/">> \o DigitsOf(i),
            text |-> <<"T">> \o DigitsOf(i)]]

\* sub in s
Contains(s, sub) ==
    \E i \in 0..(Len(s) - Len(sub)) : SubSeq(s, i + 1, i + Len(sub)) = sub

is_track(link) == Contains(link.href, <<"t", "r", "a", "c", "k">>)

\* zip(names, urls): both lists are taken from the links with "track" in href
names_urls(links) == SelectSeq(links, is_track)

(***************************************************************************)
(* The objects the generators create.                                      *)
(***************************************************************************)
Log(log_data) ==
    [type |-> log_data.LogType, text |-> log_data.LogText,
     visited |-> log_data.Visited, author |-> log_data.UserName]

Trackable(link) == [name |-> link.text, url |-> link.href]

(***************************************************************************)
(* limit: an int, or float("inf") when the caller gives none.              *)
(***************************************************************************)
Inf == [t |-> "float", v |-> "inf"]

\* a page as long as the limit, however large
per_page_of_no_cap(limit) == IF limit = Inf THEN 100 ELSE limit.v

\* min(limit, 100)
per_page_of(limit) == IF limit = Inf THEN 100 ELSE Min(limit.v, 100)

\* limit -= 1
decremented(limit) == IF limit = Inf THEN Inf ELSE Int_(limit.v - 1)

\* limit <= 0
limit_used_up(limit) == limit # Inf /\ limit.v <= 0

\* limit < 0
limit_exceeded(limit) == limit # Inf /\ limit.v < 0

(***************************************************************************)
(* A generator object: the frame of one call of load_logbook or            *)
(* load_trackables.  status is created until the first next(), suspended   *)
(* at a yield and finished afterwards; how tells which statement ended it  *)
(* and exc what the last next() raised to the consumer.  asked (the limit  *)
(* of the call), yielded, fetched                                          *)
(* (the number of entries yielded so far at each request the generator     *)
(* sent for entries), sent (all its requests), loads, started (the collection has been reset),      *)
(* before (the length of the collection when it was reset), preloaded      *)
(* (load() had succeeded before the first next()) and n (the number of     *)
(* the call) observe the run, and so do answered (the envelopes of the     *)
(* answers to its page requests) and msg (what the LoadError of a refused  *)
(* page says after "Logbook cannot be loaded: ").                          *)
(***************************************************************************)
Generator(limit, n) ==
    [status |-> "created", how |-> "", exc |-> "none", limit |-> limit, asked |-> limit,
     page |-> 0, per_page |-> 0, rest |-> <<>>, yielded |-> <<>>,
     fetched |-> <<>>, sent |-> <<>>, loads |-> 0, started |-> FALSE, before |-> 0,
     preloaded |-> FALSE, n |-> n, answered |-> <<>>, msg |-> ""]

NoGenerator == [Generator(Inf, 0) EXCEPT !.status = "none"]

\* raise StopIteration() in the body of a generator: the end of the
\* sequence, or a RuntimeError where PEP 479 is in force
raise_StopIteration(g, how, pep479) ==
    [g EXCEPT !.status = "finished", !.how = how,
              !.exc = IF pep479 THEN "RuntimeError" ELSE "StopIteration"]

\* the body runs off its end
return(g) == [g EXCEPT !.status = "finished", !.how = "return", !.exc = "StopIteration"]

\* an exception leaves the body
raise(g, e) == [g EXCEPT !.status = "finished", !.how = "error", !.exc = e]

\* the collection as a tuple; nothing while the attribute does not exist
list_of(self, a) == IF hasattr(self, a) THEN getattr(self, a).v ELSE <<>>

\* self.logbook = self.logbook
reset_kept(self, a) == [self EXCEPT ![a] = {List(list_of(self, a))}]

\* self.logbook = [] and self.trackables = []
reset(self, a) == [self EXCEPT ![a] = {List(<<>>)}]

\* the statements of a generator before its first request: the object and
\* the frame after them
begin(g, self, a) ==
    [g |-> [g EXCEPT !.started = TRUE, !.before = Len(list_of(self, a)),
                     !.preloaded = hasattr(self, "log_page_url")],
     self |-> reset(self, a)]

\* an entry is appended before the limit is looked at
append_first(g, self, a, item, pep479) ==
    Only({ IF limit_exceeded(l)
           THEN [g |-> raise_StopIteration([g EXCEPT !.limit = l], "limit", pep479),
                 self |-> [self EXCEPT ![a] = {List(Append(list_of(self, a), item))}],
                 reqs |-> <<>>]
           ELSE [g |-> [g EXCEPT !.limit = l, !.status = "suspended",
                                 !.yielded = Append(@, item)],
                 self |-> [self EXCEPT ![a] = {List(Append(list_of(self, a), item))}],
                 reqs |-> <<>>]
           : l \in {decremented(g.limit)} })

\* the body of the for loop for one item: handle the limit, then create
\* the object, append it to the collection a and yield it
handle_limit(g, self, a, item, pep479) ==
    Only({ IF limit_exceeded(l)
           THEN [g |-> raise_StopIteration([g EXCEPT !.limit = l], "limit", pep479),
                 self |-> self, reqs |-> <<>>]
           ELSE [g |-> [g EXCEPT !.limit = l, !.status = "suspended",
                                 !.yielded = Append(@, item)],
                 self |-> [self EXCEPT ![a] = {List(Append(list_of(self, a), item))}],
                 reqs |-> <<>>]
           : l \in {decremented(g.limit)} })

(***************************************************************************)
(* load_logbook: what one next() of the consumer runs, from where the      *)
(* generator stands to its next yield or to its end.  resp names the       *)
(* envelope the site answers a page request with.                          *)
(***************************************************************************)
Responses == {"success", "failed", "failed_msg"}

\* the envelopes: msg is the set holding res["msg"] when the key is there
Envelopes ==
    [ success |-> [status |-> "success", msg |-> {}],
      failed |-> [status |-> "failed", msg |-> {}],
      failed_msg |-> [status |-> "error", msg |-> {"Too many requests"}] ]

\* a message that forgets what the site said
error_msg_unknown(res) == "Unknown error"

\* res["msg"] if "msg" in res else "Unknown error"
error_msg(res) == IF res.msg # {} THEN Only(res.msg) ELSE "Unknown error"

\* the rest of the page, entry by entry
logbook_entries(g, self, page, pep479) ==
    handle_limit([g EXCEPT !.rest = Tail(page)], self, "logbook", Log(Head(page)), pep479)

\* a loop that forgets page += 1
get_page_same_page(g, self, doc, src, resp, pep479) ==
    Only({ IF tkn.exc # "none"
           THEN [g |-> raise([g EXCEPT !.loads = @ + tkn.loads], tkn.exc),
                 self |-> tkn.self, reqs |-> tkn.reqs]
           ELSE Only({ IF res.status # "success"
                       THEN [g |-> raise([g1 EXCEPT !.msg = error_msg(res)], "LoadError"),
                             self |-> tkn.self, reqs |-> rq]
                       ELSE Only({ IF logbook_page_ = <<>>
                                   THEN [g |-> raise_StopIteration(g1, "empty", pep479),
                                         self |-> tkn.self, reqs |-> rq]
                                   ELSE [logbook_entries(g1, tkn.self, logbook_page_, pep479)
                                           EXCEPT !.reqs = rq]
                                   : logbook_page_ \in {logbook_page(src, g.page + 1, g.per_page)} })
                       : res \in {Envelopes[resp]},
                         g1 \in {[g EXCEPT !.loads = @ + tkn.loads, !.page = @,
                                          !.fetched = Append(@, Len(g.yielded)),
                                          !.answered = Append(@, Envelopes[resp])]},
                         rq \in {Append(tkn.reqs, Request("logbook", "tkn", g.page + 1, g.per_page))} })
           : tkn \in {lazy_loaded(self, "logbook_token", load(self, doc))} })

\* _logbook_get_page(page, per_page), then the page's first entry
get_page(g, self, doc, src, resp, pep479) ==
    Only({ IF tkn.exc # "none"
           THEN [g |-> raise([g EXCEPT !.loads = @ + tkn.loads], tkn.exc),
                 self |-> tkn.self, reqs |-> tkn.reqs]
           ELSE Only({ IF res.status # "success"
                       THEN [g |-> raise([g1 EXCEPT !.msg = error_msg(res)], "LoadError"),
                             self |-> tkn.self, reqs |-> rq]
                       ELSE Only({ IF logbook_page_ = <<>>
                                   THEN [g |-> raise_StopIteration(g1, "empty", pep479),
                                         self |-> tkn.self, reqs |-> rq]
                                   ELSE [logbook_entries(g1, tkn.self, logbook_page_, pep479)
                                           EXCEPT !.reqs = rq]
                                   : logbook_page_ \in {logbook_page(src, g.page + 1, g.per_page)} })
                       : res \in {Envelopes[resp]},
                         g1 \in {[g EXCEPT !.loads = @ + tkn.loads, !.page = @ + 1,
                                          !.fetched = Append(@, Len(g.yielded)),
                                          !.answered = Append(@, Envelopes[resp])]},
                         rq \in {Append(tkn.reqs, Request("logbook", "tkn", g.page + 1, g.per_page))} })
           : tkn \in {lazy_loaded(self, "logbook_token", load(self, doc))} })

load_logbook(g, self, doc, src, resp, pep479) ==
    IF g.status = "created"
    THEN IF ~hasattr(self, "wp")
         THEN \* logging.info("...", self.wp)
              [g |-> raise(g, "AttributeError"), self |-> self, reqs |-> <<>>]
         ELSE Only({ get_page([b.g EXCEPT !.page = 0, !.per_page = per_page_of(g.limit)],
                              b.self, doc, src, resp, pep479)
                     : b \in {begin(g, self, "logbook")} })
    ELSE IF g.rest # <<>>
         THEN logbook_entries(g, self, g.rest, pep479)
         ELSE get_page(g, self, doc, src, resp, pep479)

(***************************************************************************)
(* load_trackables, likewise.                                              *)
(***************************************************************************)
\* the rest of the list, trackable by trackable
trackable_entries(g, self, links, pep479) ==
    IF links = <<>> THEN [g |-> return(g), self |-> self, reqs |-> <<>>]
    ELSE handle_limit([g EXCEPT !.rest = Tail(links)], self, "trackables",
                      Trackable(Head(links)), pep479)

\* from url = self.trackable_page_url to the first trackable
get_trackables(g, self, doc, src, pep479) ==
    Only({ IF url.exc # "none"
           THEN [g |-> raise([g EXCEPT !.loads = @ + url.loads], url.exc),
                 self |-> url.self, reqs |-> url.reqs]
           ELSE Only({ IF ~PyBool(getattr(url.self, "trackable_page_url"))
                       THEN \* no link to all trackables = no trackables in cache
                            [g |-> raise_StopIteration(g1, "no url", pep479),
                             self |-> url.self, reqs |-> url.reqs]
                       ELSE [trackable_entries([g1 EXCEPT !.fetched = Append(@, 0)],
                                               url.self, names_urls(trackable_links(src)),
                                               pep479)
                               EXCEPT !.reqs = Append(url.reqs,
                                                      Request("trackables", "url", 0, 0))]
                       : g1 \in {[g EXCEPT !.loads = @ + url.loads]} })
           : url \in {lazy_loaded(self, "trackable_page_url", load(self, doc))} })

load_trackables(g, self, doc, src, pep479) ==
    IF g.status = "created"
    THEN IF ~hasattr(self, "wp")
         THEN [g |-> raise(g, "AttributeError"), self |-> self, reqs |-> <<>>]
         ELSE Only({ get_trackables(b.g, b.self, doc, src, pep479)
                     : b \in {begin(g, self, "trackables")} })
    ELSE trackable_entries(g, self, g.rest, pep479)

(***************************************************************************)
(* The caller's inputs and the bounds of the model.                        *)
(***************************************************************************)
\* the assignments the caller makes after construction
AssignInputs ==
    { <<"state", Bool(FALSE)>>, <<"found", Int_(0)>>, <<"favorites", Int_(0)>>,
      <<"summary", Str(<<" ">>)>>,
      <<"attributes", Dict((<<"D", "o", "g", "s", " ">> :> FALSE) @@ (<<"x">> :> TRUE))>>,
      <<"trackable_page_url", None>>, <<"terrain", Int_(6)>> }

MaxAssign == 1

MaxLoads == 2

MaxLogs == 3

MaxTrackables == 1

MaxLimit == 3

MaxCalls == 2

MaxQuick == 1

\* the limits a caller passes: 0..MaxLimit, one above the longest page,
\* and none at all
Limits == {Int_(n) : n \in 0..MaxLimit} \cup {Int_(150), Inf}

\* the sites of the model: every number of log entries and of trackables,
\* pages as long as asked for or of two entries
Sources ==
    [logs : 0..MaxLogs, page_size : {0, 2}, trackables : 0..MaxTrackables]

VARIABLES
    self,            \* the Cache object
    remote,          \* the page the site serves for it (its name in Docs)
    requests,        \* the requests the latest operation sent to the transport
    loadCalls,       \* calls of load() so far
    setCalls,        \* assignments made by the caller so far
    assigned,        \* attributes an assignment, a keyword or load() has set
    last,            \* the caller's last operation and its outcome
    ctor,            \* the construction the object comes from (its name in CtorCalls)
    did,             \* the kinds of operation made since that can assign or load
    source,          \* the logbook and the trackables the site holds
    generator_stop,  \* PEP 479 is in force in the interpreter
    logbook_gen,     \* the generator of the latest load_logbook call
    trackables_gen,  \* the generator of the latest load_trackables call
    quickCalls,      \* calls of load_quick() so far
    arg              \* the argument of the caller's last operation, None without

vars ==
    <<self, remote, requests, loadCalls, setCalls, assigned, last, ctor, did,
      source, generator_stop, logbook_gen, trackables_gen, quickCalls, arg>>

\* the outcome of an operation: the attribute it was about, what it raised,
\* the calls of load() and the requests it made, whether the attribute had
\* been set before, and the attributes whose content it changed
Outcome(op, a, exc, loads, reqs, before, after) ==
    [op |-> op, a |-> a, exc |-> exc, loads |-> loads, reqs |-> reqs,
     known |-> a \in assigned,
     changed |-> {b \in Attrs : after[b] # before[b]}]

\* the state after the construction c
Constructs(c) ==
    /\ ctor = c
    /\ Constructed[c].exc = "none"
    /\ self = Constructed[c].self
    /\ requests = <<>>
    /\ loadCalls = 0
    /\ setCalls = 0
    /\ assigned = {a \in Attrs : hasattr(Constructed[c].self, a)}
    /\ last = [op |-> "__init__", a |-> "", exc |-> "none", loads |-> 0, reqs |-> 0,
               known |-> FALSE, changed |-> assigned]
    /\ did = {}
    /\ logbook_gen = NoGenerator
    /\ trackables_gen = NoGenerator
    /\ quickCalls = 0
    /\ arg = None

\* attributes: a cache of any construction, whose page is any of Docs
Init ==
    /\ \E c \in DOMAIN CtorCalls : Constructs(c)
    /\ remote \in DOMAIN Docs
    /\ source = [logs |-> 0, page_size |-> 0, trackables |-> 0]
    /\ generator_stop = FALSE

\* what a call of load(), of a lazy attribute or of next() leaves behind
Called(op, a, r, loads) ==
    /\ loadCalls + loads <= MaxLoads
    /\ self' = r.self
    /\ requests' = r.reqs
    /\ loadCalls' = loadCalls + loads
    /\ assigned' = assigned \cup {b \in Attrs : hasattr(r.self, b)}
    /\ last' = Outcome(op, a, r.exc, loads, Len(r.reqs), self, r.self)
    /\ did' = did \cup {op}
    /\ UNCHANGED <<remote, setCalls, ctor, source, generator_stop, quickCalls>>

\* cache.a = x
SetAttr(a, x) ==
    /\ setCalls < MaxAssign
    /\ \E r \in {setattr(self, a, x)} :
           /\ self' = r.self
           /\ assigned' = IF r.exc = "none" THEN assigned \cup {a} ELSE assigned
           /\ last' = Outcome("set", a, r.exc, 0, 0, self, r.self)
    /\ setCalls' = setCalls + 1
    /\ did' = did \cup {"set"}
    /\ requests' = <<>>
    /\ arg' = x
    /\ UNCHANGED <<remote, loadCalls, ctor, source, generator_stop,
                   logbook_gen, trackables_gen, quickCalls>>

\* cache.a, for an attribute wrapped by lazy_loaded
Read(a, loaded) ==
    /\ \E r \in {lazy_loaded(self, a, loaded)} : Called("read", a, r, r.loads)
    /\ arg' = None
    /\ UNCHANGED <<logbook_gen, trackables_gen>>

\* cache.wp and cache.pm_only, which are not wrapped
ReadPlain(a) ==
    /\ last' = Outcome("read", a,
                       IF hasattr(self, a) THEN "none" ELSE "AttributeError",
                       0, 0, self, self)
    /\ requests' = <<>>
    /\ arg' = None
    /\ UNCHANGED <<self, remote, loadCalls, setCalls, assigned, ctor, did,
                   source, generator_stop, logbook_gen, trackables_gen, quickCalls>>

\* cache.load()
Load ==
    /\ \E r \in {load(self, Docs[remote])} : Called("load", "", r, 1)
    /\ arg' = None
    /\ UNCHANGED <<logbook_gen, trackables_gen>>

Next ==
    \/ \E in \in AssignInputs : SetAttr(in[1], in[2])
    \/ \E loaded \in {load(self, Docs[remote])} :
          \E a \in LazyAttrs : Read(a, loaded)
    \/ \E a \in {"wp", "pm_only"} : ReadPlain(a)
    \/ Load

Spec == Init /\ [][Next]_vars

(***************************************************************************)
(* The child collections: a caller that makes generators and consumes      *)
(* them, one sequence of one collection at a time (a new call leaves the   *)
(* previous generator behind), after it has called load() or without.      *)
(***************************************************************************)
\* collections: a cache made from a waypoint or from a trackable's url,
\* whose page loads with trackables, loads without, or is for premium
\* members, on any site, under either interpreter
InitSeq ==
    /\ \E c \in {"waypoint", "from_trackable"} : Constructs(c)
    /\ remote \in {"GoodDoc", "BareDoc", "PMODoc"}
    /\ source \in Sources
    /\ generator_stop \in BOOLEAN

\* g = cache.load_logbook(limit): nothing of the body runs yet
LoadLogbook(limit) ==
    /\ logbook_gen.n < MaxCalls
    /\ trackables_gen = NoGenerator
    /\ logbook_gen' = Generator(limit, logbook_gen.n + 1)
    /\ requests' = <<>>
    /\ arg' = limit
    /\ UNCHANGED <<self, remote, loadCalls, setCalls, assigned, last, ctor,
                   did, source, generator_stop, trackables_gen, quickCalls>>

\* what next(g) raised: nothing when it returned an entry
Raised(g) == IF g.status = "finished" THEN g.exc ELSE "none"

\* next(g)
NextLog(resp) ==
    /\ logbook_gen.status \in {"created", "suspended"}
    /\ \E r \in {load_logbook(logbook_gen, self, Docs[remote], source, resp,
                              generator_stop)} :
           /\ logbook_gen' = [r.g EXCEPT !.sent = @ \o r.reqs]
           /\ Called("next", "logbook",
                     [exc |-> Raised(r.g), self |-> r.self, reqs |-> r.reqs],
                     r.g.loads - logbook_gen.loads)
    /\ arg' = None
    /\ UNCHANGED trackables_gen

\* g = cache.load_trackables(limit)
LoadTrackables(limit) ==
    /\ trackables_gen.n < MaxCalls
    /\ logbook_gen = NoGenerator
    /\ trackables_gen' = Generator(limit, trackables_gen.n + 1)
    /\ requests' = <<>>
    /\ arg' = limit
    /\ UNCHANGED <<self, remote, loadCalls, setCalls, assigned, last, ctor,
                   did, source, generator_stop, logbook_gen, quickCalls>>

NextTrackable ==
    /\ trackables_gen.status \in {"created", "suspended"}
    /\ \E r \in {load_trackables(trackables_gen, self, Docs[remote], source,
                                 generator_stop)} :
           /\ trackables_gen' = [r.g EXCEPT !.sent = @ \o r.reqs]
           /\ Called("next", "trackables",
                     [exc |-> Raised(r.g), self |-> r.self, reqs |-> r.reqs],
                     r.g.loads - trackables_gen.loads)
    /\ arg' = None
    /\ UNCHANGED logbook_gen

NextSeq ==
    \/ \E limit \in Limits : LoadLogbook(limit)
    \/ \E resp \in Responses : NextLog(resp)
    \/ \E limit \in Limits : LoadTrackables(limit)
    \/ NextTrackable
    \/ (logbook_gen = NoGenerator /\ trackables_gen = NoGenerator /\ Load)

SpecSeq == InitSeq /\ [][NextSeq]_vars

(***************************************************************************)
(* The quick load: a caller that, besides assigning, reading and loading,  *)
(* calls load_quick().                                                     *)
(***************************************************************************)
\* the assignments this caller makes
OpsInputs ==
    { <<"wp", Str(<<" ", "g", "c", "2">>)>>, <<"favorites", Int_(-1)>>,
      <<"pm_only", Int_(1)>> }

\* the attributes it reads: those load_quick() does not set, and one it sets
OpsReads ==
    {"summary", "description", "hint", "logbook_token", "trackable_page_url",
     "log_page_url", "location", "found", "attributes", "name"}

\* a cache made from a waypoint or from keywords, whose page loads or is
\* the page of another cache
InitOps ==
    /\ \E c \in {"waypoint", "keywords"} : Constructs(c)
    /\ remote \in {"GoodDoc", "MovedDoc"}
    /\ source = [logs |-> 0, page_size |-> 0, trackables |-> 0]
    /\ generator_stop = FALSE

\* cache.load_quick(), answered by the map server with res
LoadQuick(res) ==
    /\ quickCalls < MaxQuick
    /\ \E r \in {load_quick(self, res)} :
           /\ self' = r.self
           /\ requests' = r.reqs
           /\ assigned' = assigned \cup {b \in Attrs : hasattr(r.self, b)}
           /\ last' = Outcome("load_quick", "", r.exc, 0, Len(r.reqs), self, r.self)
    /\ quickCalls' = quickCalls + 1
    /\ did' = did \cup {"load_quick"}
    /\ arg' = None
    /\ UNCHANGED <<remote, loadCalls, setCalls, ctor, source, generator_stop,
                   logbook_gen, trackables_gen>>

NextOps ==
    \/ \E in \in OpsInputs : SetAttr(in[1], in[2])
    \/ \E loaded \in {load(self, Docs[remote])} :
          \E a \in OpsReads : Read(a, loaded)
    \/ \E a \in {"wp", "pm_only"} : ReadPlain(a)
    \/ Load
    \/ \E q \in DOMAIN QuickDocs : LoadQuick(QuickDocs[q])

SpecOps == InitOps /\ [][NextOps]_vars

(***************************************************************************)
(* Log submission: a caller that posts logs, before a load() or after.     *)
(***************************************************************************)
\* the logs a caller posts: with and without a text, of a type the page offers
\* and of one it does not; type is the value of the member of the log's Type
Logs ==
    [ text : {Str(<<>>), None, Str(<<"T", "F", "T", "C">>)},
      type : {<<"f", "o", "u", "n", "d", " ", "i", "t">>,
              <<"a", "r", "c", "h", "i", "v", "e">>} ]

\* a cache of any construction, whose page loads, cannot be fetched or is
\* for premium members, on a site that serves one of LogPages as the page
\* of the form (log_page is its name there)
InitPost ==
    /\ \E c \in DOMAIN CtorCalls : Constructs(c)
    /\ remote \in {"GoodDoc", "NotFoundDoc", "PMODoc"}
    /\ source \in { [logs |-> 0, page_size |-> 0, trackables |-> 0, log_page |-> p]
                    : p \in DOMAIN LogPages }
    /\ generator_stop = FALSE

\* cache.post_log(l)
PostLog(l) ==
    /\ \E r \in {post_log(self, l, load(self, Docs[remote]), LogPages[source.log_page])} :
           Called("post_log", "", r, r.loads)
    /\ arg' = l
    /\ UNCHANGED <<logbook_gen, trackables_gen>>

NextPost ==
    \/ \E l \in Logs : PostLog(l)
    \/ Load

SpecPost == InitPost /\ [][NextPost]_vars

(***************************************************************************)
(* The normalisation of types and sizes on its own: a caller that hands    *)
(* icon filenames and readable names to the four class methods of Type and *)
(* Size.                                                                   *)
(***************************************************************************)
\* the keys of name_mapping in Type.from_string
TypeLabels ==
    { <<"t", "r", "a", "d", "i", "t", "i", "o", "n", "a", "l">>,
      <<"m", "u", "l", "t", "i", "-", "c", "a", "c", "h", "e">>,
      <<"m", "y", "s", "t", "e", "r", "y">>,
      <<"u", "n", "k", "n", "o", "w", "n">>,
      <<"l", "e", "t", "t", "e", "r", "b", "o", "x", " ", "h", "y", "b", "r", "i", "d">>,
      <<"e", "v", "e", "n", "t">>,
      <<"m", "e", "g", "a", "-", "e", "v", "e", "n", "t">>,
      <<"g", "i", "g", "a", "-", "e", "v", "e", "n", "t">>,
      <<"e", "a", "r", "t", "h", "c", "a", "c", "h", "e">>,
      <<"c", "i", "t", "o">>,
      <<"c", "a", "c", "h", "e", " ", "i", "n", " ", "t", "r", "a", "s", "h", " ", "o", "u", "t", " ", "e", "v", "e", "n", "t">>,
      <<"w", "e", "b", "c", "a", "m">>,
      <<"v", "i", "r", "t", "u", "a", "l">>,
      <<"w", "h", "e", "r", "i", "g", "o">>,
      <<"l", "o", "s", "t", " ", "a", "n", "d", " ", "f", "o", "u", "n", "d", " ", "e", "v", "e", "n", "t">>,
      <<"p", "r", "o", "j", "e", "c", "t", " ", "a", "p", "e">>,
      <<"g", "r", "o", "u", "n", "d", "s", "p", "e", "a", "k", " ", "h", "q">>,
      <<"g", "p", "s", " ", "a", "d", "v", "e", "n", "t", "u", "r", "e", "s", " ", "e", "x", "h", "i", "b", "i", "t">>,
      <<"g", "r", "o", "u", "n", "d", "s", "p", "e", "a", "k", " ", "b", "l", "o", "c", "k", " ", "p", "a", "r", "t", "y">>,
      <<"l", "o", "c", "a", "t", "i", "o", "n", "l", "e", "s", "s", " ", "(", "r", "e", "v", "e", "r", "s", "e", ")">> }

\* the values of the members of Size
SizeLabels ==
    { <<"m", "i", "c", "r", "o">>,
      <<"s", "m", "a", "l", "l">>,
      <<"r", "e", "g", "u", "l", "a", "r">>,
      <<"l", "a", "r", "g", "e">>,
      <<"n", "o", "t", " ", "c", "h", "o", "s", "e", "n">>,
      <<"v", "i", "r", "t", "u", "a", "l">>,
      <<"o", "t", "h", "e", "r">> }

\* a name as the site writes it
capitalize(s) == IF s = <<>> THEN s ELSE <<upper_char(Head(s))>> \o Tail(s)

\* what the caller passes to each method: for the filenames every value of
\* Type and every name of Size, the second name of the earthcache icon, and
\* some that are neither; for the readable names every key in lower case,
\* capitalized, followed by " Cache" or " Geocache" and with blanks around
\* it, and some names that are no key
NormInputs ==
    [ Type_from_filename |->
          DOMAIN TypeByValue \cup {"earthcache", "9", "", "traditional", "unknown"},
      Type_from_string |->
          { Str(s) : s \in
              UNION { { l, capitalize(l),
                        capitalize(l) \o <<" ", "C", "a", "c", "h", "e">>,
                        capitalize(l) \o <<" ", "G", "e", "o", "c", "a", "c", "h", "e">>,
                        <<" ">> \o capitalize(l) \o <<" ">> } : l \in TypeLabels }
              \cup { <<>>, <<"P", "u", "z", "z", "l", "e">>,
                     <<"T", "r", "a", "d", "i", " ", "C", "a", "c", "h", "e", "t", "i", "o", "n", "a", "l">>,
                     <<"T", "r", "a", "d", "i", "t", "i", "o", "n", "a", "l", " ", "C", "a", "c", "h", "e", " ", "x">>,
                     <<"2">> } },
      Size_from_filename |->
          SizeNames \cup {"not chosen", "Micro", ""},
      Size_from_string |->
          { Str(s) : s \in
              UNION { { l, upper(l), <<" ">> \o capitalize(l) \o <<"\n">> }
                      : l \in SizeLabels }
              \cup { <<>>, <<"t", "i", "n", "y">>, <<"n", "o", "t", "_", "c", "h", "o", "s", "e", "n">> } } ]

\* the call of one of the four methods
normalize(method, x) ==
    CASE method = "Type_from_filename" -> Type_from_filename(x)
      [] method = "Type_from_string" -> Type_from_string(x)
      [] method = "Size_from_filename" -> Size_from_filename(x)
      [] method = "Size_from_string" -> Size_from_string(x)

\* no cache takes part: the object is there only to be left alone
InitNorm ==
    /\ Constructs("nothing")
    /\ remote = "GoodDoc"
    /\ source = [logs |-> 0, page_size |-> 0, trackables |-> 0]
    /\ generator_stop = FALSE

\* Type.from_filename(x), Type.from_string(x), Size.from_filename(x) or
\* Size.from_string(x): val holds what the call returned, if it returned
Normalize(method, x) ==
    /\ \E r \in {normalize(method, x)} :
           last' = [op |-> method, a |-> "", exc |-> r.exc, loads |-> 0, reqs |-> 0,
                    known |-> FALSE, changed |-> {},
                    val |-> IF r.exc = "none" THEN {r.val} ELSE {}]
    /\ arg' = x
    /\ requests' = <<>>
    /\ UNCHANGED <<self, remote, loadCalls, setCalls, assigned, ctor, did, source,
                   generator_stop, logbook_gen, trackables_gen, quickCalls>>

NextNorm ==
    \E method \in DOMAIN NormInputs : \E x \in NormInputs[method] : Normalize(method, x)

SpecNorm == InitNorm /\ [][NextNorm]_vars

(***************************************************************************)
(* The ratings: a caller that assigns to difficulty and terrain, reads     *)
(* them and calls load(), on a cache made from a waypoint.                 *)
(***************************************************************************)
MaxRatings == 2

\* what the caller assigns, each with the number it stands for in
\* hundredths: the whole numbers from 0 to 6, floats on and off the halves
\* and beyond both ends, and numbers written as text
RatingNumbers ==
    [x \in {Int_(n) : n \in 0..6} |-> 100 * x.v]
    @@ [x \in {Float(h) : h \in {-150, 50, 99, 100, 125, 150, 275, 450, 500, 501, 550}} |-> x.v]
    @@ (Str(<<"4", ".", "5">>) :> 450) @@ (Str(<<" ", "2", " ">>) :> 200)
    @@ (Str(<<"0", ".", "5">>) :> 50) @@ (Str(<<"3", ".", "2", "5">>) :> 325)

InitRating ==
    /\ Constructs("waypoint")
    /\ remote \in {"GoodDoc", "NotFoundDoc"}
    /\ source = [logs |-> 0, page_size |-> 0, trackables |-> 0]
    /\ generator_stop = FALSE

\* cache.difficulty = x and cache.terrain = x
SetRating(a, x) ==
    /\ setCalls < MaxRatings
    /\ \E r \in {setattr(self, a, x)} :
           /\ self' = r.self
           /\ assigned' = IF r.exc = "none" THEN assigned \cup {a} ELSE assigned
           /\ last' = Outcome("set", a, r.exc, 0, 0, self, r.self)
    /\ setCalls' = setCalls + 1
    /\ did' = did \cup {"set"}
    /\ arg' = x
    /\ requests' = <<>>
    /\ UNCHANGED <<remote, loadCalls, ctor, source, generator_stop,
                   logbook_gen, trackables_gen, quickCalls>>

NextRating ==
    \/ \E a \in {"difficulty", "terrain"} :
          \* a number, or what stands for none
          \E x \in DOMAIN RatingNumbers \cup {Str(<<"e", "a", "s", "y">>), None} :
              SetRating(a, x)
    \/ \E loaded \in {load(self, Docs[remote])} :
          \E a \in {"difficulty", "terrain"} : Read(a, loaded)
    \/ Load

SpecRating == InitRating /\ [][NextRating]_vars

(***************************************************************************)
(* Properties of the attributes (Spec).                                    *)
(***************************************************************************)
\* the pages from which load() of a cache made from a waypoint succeeds
Loadable ==
    {d \in DOMAIN Docs : load(Constructed["waypoint"].self, Docs[d]).exc = "none"}

\* C1: on a cache constructed from a waypoint alone, whose load succeeds,
\* reads of lazily-loaded attributes in any number and order call load()
\* exactly once in total: the first read calls it, every read returns a
\* value, and no later read calls it again.
C1_ReadsLoadOnce ==
    (ctor = "waypoint" /\ remote \in Loadable /\ did \subseteq {"read"}) =>
        /\ loadCalls = IF "read" \in did THEN 1 ELSE 0
        /\ (last.op = "read" /\ last.a \in LazyAttrs) => last.exc = "none"

\* C1 happens: after the load of the first read, a read of a lazily-loaded
\* attribute that calls nothing
C1_Witness ==
    /\ ctor = "waypoint" /\ remote \in Loadable /\ did = {"read"}
    /\ loadCalls = 1
    /\ last.op = "read" /\ last.a \in LazyAttrs /\ last.known /\ last.loads = 0

\* C2: a read of a lazily-loaded attribute that has been set (by an
\* assignment, a constructor keyword or load()) never calls load() and
\* returns the value, whatever the value stored: False, 0, "", {} and None
\* count as set.
C2_SetIsNeverLoadedAgain ==
    (last.op = "read" /\ last.a \in LazyAttrs /\ last.known) =>
        (last.loads = 0 /\ last.exc = "none" /\ requests = <<>>)

\* C2 happens: a read of an attribute whose stored value is false, with no
\* load() made at all
C2_Witness ==
    /\ last.op = "read" /\ last.a \in LazyAttrs /\ last.known
    /\ hasattr(self, last.a) /\ ~PyBool(getattr(self, last.a))
    /\ loadCalls = 0

\* C3: on a cache constructed with neither a url nor a waypoint, load() and
\* every read of an unset lazily-loaded attribute fail with LoadError, send
\* no request, and leave the cache without a url and without a waypoint.
C3_NothingToLoadFrom ==
    (/\ ctor = "nothing"
     /\ \/ last.op = "load"
        \/ last.op = "read" /\ last.a \in LazyAttrs /\ ~last.known) =>
        /\ last.exc = "LoadError"
        /\ requests = <<>>
        /\ ~hasattr(self, "url") /\ ~hasattr(self, "wp")

\* C3 happens: a failed read of an unset attribute after a failed load()
C3_Witness ==
    /\ ctor = "nothing" /\ "load" \in did
    /\ last.op = "read" /\ last.a \in LazyAttrs /\ ~last.known
    /\ last.exc = "LoadError"

\* C4: when the page fetched by load() carries the premium-only marker,
\* load() raises PMOnlyException (not LoadError) and no attribute of the
\* cache has changed: what was unset before is unset after.
C4_PremiumOnlyFailsFirst ==
    (last.op = "load" /\ requests # <<>> /\ Docs[remote].transport = "ok"
     /\ Docs[remote].PMOWarning) =>
        (last.exc = "PMOnlyException" /\ last.changed = {})

\* C4 happens: load() of a premium-only page on a cache with unset attributes
C4_Witness ==
    /\ last.op = "load" /\ requests # <<>> /\ remote = "PMODoc"
    /\ last.exc = "PMOnlyException"
    /\ \E a \in LazyAttrs : ~hasattr(self, a)

(***************************************************************************)
(* Properties of the child collections (SpecSeq).                          *)
(***************************************************************************)
\* the Log entries of the first n entries of the site, in its order
FirstLogs(n) == [i \in 1..n |-> Log(LogData(i))]

\* C5: a load_logbook(L) sequence consumed to its end (by the empty page
\* or by the limit), with L >= 0 or no limit, has yielded exactly the first
\* min(L, N) entries of the N the site holds, each once, in the site's order.
C5_YieldsMinOfLimitAndEntries ==
    (logbook_gen.status = "finished" /\ logbook_gen.how \in {"empty", "limit"}) =>
        logbook_gen.yielded =
            FirstLogs(IF logbook_gen.asked = Inf THEN source.logs
                      ELSE Min(logbook_gen.asked.v, source.logs))

\* C5 happens: a limit below the number of entries the site holds, reached
\* on the second page
C5_Witness ==
    /\ logbook_gen.status = "finished" /\ logbook_gen.how = "limit"
    /\ logbook_gen.asked # Inf /\ logbook_gen.asked.v < source.logs
    /\ Len(logbook_gen.yielded) = logbook_gen.asked.v
    /\ Len(logbook_gen.fetched) = 2

\* C6: load_logbook(L) sends no page request once it has yielded L entries:
\* at every page request fewer than L entries have been yielded.
C6_NoRequestOnceLimitReached ==
    logbook_gen.asked # Inf =>
        \A i \in DOMAIN logbook_gen.fetched :
            logbook_gen.fetched[i] < logbook_gen.asked.v

\* C7: an empty page ends the load_logbook sequence as the end of the data:
\* the consumer's next() raises StopIteration and no other exception.
C7_EmptyPageEndsNormally ==
    (logbook_gen.status = "finished" /\ logbook_gen.how = "empty") =>
        logbook_gen.exc = "StopIteration"

\* C8: once a second or later call of load_logbook, or of load_trackables,
\* has been consumed to its end, the collection holds exactly the entries
\* that call yielded and none of an earlier call.
C8_EachCallStartsEmpty ==
    /\ (logbook_gen.n >= 2 /\ logbook_gen.status = "finished") =>
           list_of(self, "logbook") = logbook_gen.yielded
    /\ (trackables_gen.n >= 2 /\ trackables_gen.status = "finished") =>
           list_of(self, "trackables") = trackables_gen.yielded

\* C8 happens: a second call that ended with fewer entries than the first
\* had left in the logbook
C8_Witness ==
    /\ logbook_gen.n = 2 /\ logbook_gen.status = "finished"
    /\ logbook_gen.how \in {"empty", "limit"}
    /\ Len(logbook_gen.yielded) < logbook_gen.before
    /\ Len(logbook_gen.yielded) > 0

\* C9: from the first next() of a load_logbook sequence on, at every yield,
\* when the caller stops part-way and after a page request has failed, the
\* logbook is exactly the sequence of the entries yielded so far, in order.
C9_LogbookIsWhatWasYielded ==
    logbook_gen.started => list_of(self, "logbook") = logbook_gen.yielded

\* C9 happens: a page request failed after entries had been yielded
C9_Witness ==
    /\ logbook_gen.status = "finished" /\ logbook_gen.how = "error"
    /\ logbook_gen.exc = "LoadError" /\ Len(logbook_gen.fetched) = 2
    /\ Len(logbook_gen.yielded) = 2

\* C10: a successful load() of a page without trackables stores None as
\* trackable_page_url, and a load_trackables sequence begun after that load
\* yields nothing, sends no request and calls no load().
C10_NoTrackablesNoRequest ==
    /\ (hasattr(self, "log_page_url") /\ Docs[remote].inventory_links < 3) =>
           self["trackable_page_url"] = {None}
    /\ (trackables_gen.started /\ trackables_gen.preloaded
        /\ Docs[remote].inventory_links < 3) =>
           /\ trackables_gen.yielded = <<>>
           /\ trackables_gen.sent = <<>>
           /\ trackables_gen.loads = 0

\* C10 happens: the second load_trackables sequence on a cache whose load
\* found no trackables, on a site that lists some
C10_Witness ==
    /\ remote = "BareDoc" /\ source.trackables > 0
    /\ trackables_gen.n = 2 /\ trackables_gen.status = "finished"
    /\ trackables_gen.preloaded /\ trackables_gen.how = "no url"

(***************************************************************************)
(* Properties of the quick load and of the attributes it touches           *)
(* (SpecOps).                                                              *)
(***************************************************************************)
\* the attributes a successful load() assigns
LoadSet == { load_assignments(GoodDoc)[i].a : i \in DOMAIN load_assignments(GoodDoc) }

\* the attributes the spec lists as not available from the map server
Excluded ==
    {"summary", "description", "hint", "logbook_token", "trackable_page_url",
     "log_page_url"}

\* C11 as claimed: after a successful load_quick() every attribute that
\* load() assigns, except summary, description, hint, logbook_token,
\* trackable_page_url and log_page_url, is set; load_quick() leaves those six
\* alone, and the read of one of them afterwards calls load().
C11_QuickSetsAllButSix ==
    /\ (last.op = "load_quick" /\ last.exc = "none") =>
           /\ \A a \in LoadSet \ Excluded : hasattr(self, a)
           /\ last.changed \cap Excluded = {}
    /\ (last.op = "read" /\ last.a \in Excluded /\ ~last.known /\ "load_quick" \in did) =>
           last.loads = 1

\* C11 amended: a successful load_quick() sets name, type, state, size,
\* difficulty, terrain, hidden, author, favorites and pm_only and changes no
\* other attribute; on a cache made from a waypoint alone those and wp are
\* then all that is set (location, found and attributes are not, nor the six
\* of the claim); and the read of any attribute it left unset calls load()
\* once.
C11_QuickSetsTheBasicDetails ==
    /\ (last.op = "load_quick" /\ last.exc = "none") =>
           /\ \A a \in {"name", "type", "state", "size", "difficulty", "terrain",
                        "hidden", "author", "favorites", "pm_only"} : hasattr(self, a)
           /\ last.changed \subseteq
                  {"name", "type", "state", "size", "difficulty", "terrain",
                   "hidden", "author", "favorites", "pm_only"}
           /\ (ctor = "waypoint" /\ did = {"load_quick"}) =>
                  {a \in Attrs : hasattr(self, a)} =
                      {"wp", "name", "type", "state", "size", "difficulty", "terrain",
                       "hidden", "author", "favorites", "pm_only"}
    /\ (last.op = "read" /\ last.a \in LazyAttrs /\ ~last.known /\ "load_quick" \in did) =>
           (last.loads = 1 /\ last.exc = "none")

\* C11 happens: after a successful load_quick() on a cache made from a
\* waypoint, the read of location calls load()
C11_Witness ==
    /\ ctor = "waypoint" /\ did = {"load_quick", "read"} /\ hasattr(self, "pm_only")
    /\ last.op = "read" /\ last.a = "location" /\ ~last.known
    /\ last.loads = 1 /\ loadCalls = 1

\* C13 as claimed: the waypoint of a cache constructed with one is, in
\* every state, the one it was constructed with.
C13_WaypointNeverChanges ==
    hasattr(Constructed[ctor].self, "wp") => self["wp"] = Constructed[ctor].self["wp"]

\* C13 amended: after the construction the waypoint changes only by an
\* assignment to wp or by a load(), called directly or by the read of an unset attribute, which
\* stores the waypoint the fetched page names; load_quick() never changes
\* it, and without an assignment a load() of the page of the cache's own
\* waypoint leaves it as constructed.
C13_WaypointChangesOnlyBySetOrLoad ==
    /\ "wp" \in last.changed =>
           \/ last.op = "__init__"
           \/ last.op = "set" /\ last.a = "wp"
           \/ last.loads >= 1 /\ self["wp"] = {Str(Docs[remote].wp)}
    /\ ("set" \notin did /\ Docs[remote].wp = <<"G", "C", "1">>) =>
           self["wp"] = Constructed[ctor].self["wp"]

\* C13 happens: a load() of the page of the cache's own waypoint, on a
\* cache whose waypoint was given in small letters with a blank
C13_Witness ==
    /\ ctor = "waypoint" /\ remote = "GoodDoc" /\ "set" \notin did
    /\ last.op = "load" /\ last.exc = "none"
    /\ self["wp"] = {Str(<<"G", "C", "1">>)}

\* C14: whenever favorites is set, the value stored is an integer that is
\* not negative.
C14_FavoritesNeverNegative ==
    hasattr(self, "favorites") =>
        (getattr(self, "favorites").t = "int" /\ getattr(self, "favorites").v >= 0)

\* C15: the read of pm_only calls no load(), sends no request and changes
\* nothing, in any state; pm_only changes only by the constructor's
\* keyword, by an assignment to it or by load_quick(); on a cache constructed without it, it is unset as long as
\* the caller only loads and reads.
C15_PmOnlyIsNeverLoaded ==
    /\ (last.op = "read" /\ last.a = "pm_only") =>
           (last.loads = 0 /\ requests = <<>> /\ last.changed = {})
    /\ "pm_only" \in last.changed =>
           \/ last.op = "__init__"
           \/ last.op = "set" /\ last.a = "pm_only"
           \/ last.op = "load_quick"
    /\ (ctor = "waypoint" /\ did \subseteq {"load", "read"}) => ~hasattr(self, "pm_only")

\* C15 happens: after a successful load(), the read of pm_only on a cache
\* that never had it
C15_Witness ==
    /\ ctor = "waypoint" /\ did = {"load"} /\ hasattr(self, "log_page_url")
    /\ last.op = "read" /\ last.a = "pm_only" /\ last.exc = "AttributeError"

(***************************************************************************)
(* Properties of the log submission (SpecPost).                            *)
(***************************************************************************)
\* C12: post_log of a log whose text is empty (or None) raises the
\* library's ValueError, sends no request of any kind, calls no load() and
\* changes nothing.
C12_EmptyTextFailsFirst ==
    (last.op = "post_log" /\ ~PyBool(arg.text)) =>
        /\ last.exc = "errors.ValueError"
        /\ requests = <<>> /\ last.loads = 0 /\ last.changed = {}

\* C12 happens: a log without text posted on a cache whose log_page_url is
\* not set, so that a log with a text would have called load()
C12_Witness ==
    /\ last.op = "post_log" /\ arg.text = Str(<<>>)
    /\ hasattr(self, "wp") /\ ~hasattr(self, "log_page_url") /\ remote = "GoodDoc"
    /\ last.exc = "errors.ValueError"

(***************************************************************************)
(* Properties of the normalisation (SpecNorm).                             *)
(***************************************************************************)
\* s without the word at its end, when it ends with it
without_suffix(s, word) ==
    IF Len(s) >= Len(word) /\ SubSeq(s, Len(s) - Len(word) + 1, Len(s)) = word
    THEN SubSeq(s, 1, Len(s) - Len(word))
    ELSE s

\* the label a readable name stands for: the name without blanks around it
\* and without the word "Geocache" or "Cache" at its end, in lower case
label_of(s) ==
    lower(strip(without_suffix(
        without_suffix(strip(s), <<" ", "G", "e", "o", "c", "a", "c", "h", "e">>),
        <<" ", "C", "a", "c", "h", "e">>)))

\* the member each icon filename stands for, with both names of the
\* earthcache icon
TypeOfToken == TypeByValue @@ ("earthcache" :> TypeByValue["137"])

\* C16: each of the four normalisations returns the member of the table for
\* every filename and every label of its table, and raises, returning
\* nothing, for every other input; "earthcache" and "137" give the same Type.
C16_NormalizationFollowsTheTables ==
    /\ last.op = "Type_from_filename" =>
           IF arg \in DOMAIN TypeOfToken
           THEN last.val = {TypeV(TypeOfToken[arg])}
           ELSE last.exc # "none" /\ last.val = {}
    /\ last.op = "Type_from_string" =>
           IF label_of(arg.v) \in TypeLabels
           THEN last.val = {TypeV(name_mapping(label_of(arg.v)))}
           ELSE last.exc # "none" /\ last.val = {}
    /\ last.op = "Size_from_filename" =>
           IF arg \in SizeNames
           THEN last.val = {SizeV(arg)}
           ELSE last.exc # "none" /\ last.val = {}
    /\ last.op = "Size_from_string" =>
           IF label_of(arg.v) \in SizeLabels
           THEN last.val = {SizeV(SizeByValue(label_of(arg.v)))}
           ELSE last.exc # "none" /\ last.val = {}

(***************************************************************************)
(* Properties of the ratings (SpecRating).                                 *)
(***************************************************************************)
\* C17: an assignment to difficulty or terrain of a number below 1, above 5
\* or off the halves fails and changes nothing, the rating stored before
\* included; an assignment of 1, 1.5, 2, ..., 5 succeeds and stores exactly
\* that number, and a read of a rating that is set returns it with no call
\* of load() and no request.
C17_RatingsAreValidated ==
    /\ (last.op = "set" /\ arg \in DOMAIN RatingNumbers) =>
           IF RatingNumbers[arg] \in {100 + 50 * k : k \in 0..8}
           THEN /\ last.exc = "none"
                /\ self[last.a] = {Float(RatingNumbers[arg])}
           ELSE /\ last.exc = "errors.ValueError"
                /\ last.changed = {}
    /\ (last.op = "read" /\ last.known) =>
           /\ last.exc = "none" /\ last.loads = 0 /\ requests = <<>>
           /\ last.changed = {}

\* C17 happens: 1.25 is refused for a rating that an earlier assignment had
\* set to 4.5, which it still is, with no load() made
C17_Witness ==
    /\ last.op = "set" /\ arg = Float(125) /\ last.exc = "errors.ValueError"
    /\ self[last.a] = {Float(450)}
    /\ setCalls = 2 /\ loadCalls = 0

(***************************************************************************)
(* Properties of the page requests of load_logbook (SpecSeq).              *)
(***************************************************************************)
is_page_request(rq) == rq.to = "logbook"

is_full_load(rq) == rq.to = "cache_details"

\* the page requests of the latest load_logbook call, in the order sent
PageRequests == SelectSeq(logbook_gen.sent, is_page_request)

\* C18 as stated: every page request asks for min(limit - yielded, 100)
\* entries, yielded being the number of entries yielded when it is sent.
C18_PageSizeIsTheRemainingLimit ==
    \A i \in DOMAIN PageRequests :
        PageRequests[i].num =
            IF logbook_gen.asked = Inf THEN 100
            ELSE Min(logbook_gen.asked.v - logbook_gen.fetched[i], 100)

\* C18, amended: every page request of one load_logbook(limit) call asks
\* for the same number of entries, min(limit, 100) with the limit as the
\* caller gave it (100 without a limit), whatever has been yielded.
C18_PageSizeIsFixedAtTheCall ==
    \A i \in DOMAIN PageRequests :
        PageRequests[i].num =
            IF logbook_gen.asked = Inf THEN 100
            ELSE IF logbook_gen.asked.v < 100 THEN logbook_gen.asked.v ELSE 100

\* C18 happens: a second page request after entries have been yielded, under
\* a limit below 100, and it asks for as many entries as the first
C18_Witness ==
    /\ Len(PageRequests) = 2
    /\ logbook_gen.asked # Inf /\ logbook_gen.asked.v < 100
    /\ logbook_gen.fetched[2] > 0
    /\ PageRequests[2].num = logbook_gen.asked.v

\* C19: on a cache made from a waypoint alone, the requests of one
\* load_logbook sequence are at most one full load, sent before every page
\* request, and then page requests with the indices 1, 2, 3, ... in order.
C19_OneLoadThenPagesInOrder ==
    ctor = "waypoint" =>
        /\ Len(SelectSeq(logbook_gen.sent, is_full_load)) <= 1
        /\ logbook_gen.sent = SelectSeq(logbook_gen.sent, is_full_load) \o PageRequests
        /\ \A i \in DOMAIN PageRequests : PageRequests[i].idx = i

\* C19 happens: a full load, then the pages 1 and 2
C19_Witness ==
    /\ ctor = "waypoint" /\ Len(logbook_gen.sent) = 3
    /\ is_full_load(logbook_gen.sent[1])
    /\ logbook_gen.sent[2].idx = 1 /\ logbook_gen.sent[3].idx = 2

\* C20: when the answer to a page request has a status other than
\* "success", that next() raises LoadError with the message of the answer,
\* or "Unknown error" when it has none; nothing is yielded or appended after
\* the request, and it is the last request of the sequence.
C20_RefusedPageEndsTheSequence ==
    \A i \in DOMAIN logbook_gen.answered :
        logbook_gen.answered[i].status # "success" =>
            /\ logbook_gen.status = "finished" /\ logbook_gen.exc = "LoadError"
            /\ logbook_gen.msg = IF logbook_gen.answered[i].msg = {} THEN "Unknown error"
                                 ELSE Only(logbook_gen.answered[i].msg)
            /\ Len(logbook_gen.yielded) = logbook_gen.fetched[i]
            /\ list_of(self, "logbook") = logbook_gen.yielded
            /\ i = Len(PageRequests)
            /\ is_page_request(logbook_gen.sent[Len(logbook_gen.sent)])

\* C20 happens: the second page is refused with a message, after the two
\* entries of the first have been yielded
C20_Witness ==
    /\ Len(logbook_gen.answered) = 2
    /\ logbook_gen.answered[2] = Envelopes["failed_msg"]
    /\ logbook_gen.exc = "LoadError" /\ logbook_gen.msg = "Too many requests"
    /\ Len(list_of(self, "logbook")) = 2

(***************************************************************************)
(* Properties of the requests of post_log (SpecPost).                      *)
(***************************************************************************)
is_write(rq) == rq.to = "log" /\ rq.by = "POST"

is_log_page_fetch(rq) == rq.to = "log" /\ rq.by = "GET"

\* the types of log each page of the form accepts
AcceptedTypes ==
    [ GoodLogPage |-> { <<"f", "o", "u", "n", "d", " ", "i", "t">>,
                        <<"w", "r", "i", "t", "e", " ", "n", "o", "t", "e">> },
      OwnerLogPage |-> { <<"f", "o", "u", "n", "d", " ", "i", "t">>,
                         <<"w", "r", "i", "t", "e", " ", "n", "o", "t", "e">>,
                         <<"a", "r", "c", "h", "i", "v", "e">> },
      NoLogPage |-> {} ]

\* C21: post_log sends a write request only when the log has a text and
\* its type is one the fetched page of the form accepts; then it sends
\* exactly one, as its last request, right after the fetch of that page.
\* When the page has been fetched and does not accept the type, post_log
\* raises the library's ValueError and sends no write request.
C21_WritesOnlyAnAcceptedLog ==
    last.op = "post_log" =>
        /\ Len(SelectSeq(requests, is_write)) <= 1
        /\ SelectSeq(requests, is_write) # <<>> <=>
               /\ PyBool(arg.text)
               /\ SelectSeq(requests, is_log_page_fetch) # <<>>
               /\ LogPages[source.log_page].transport = "ok"
               /\ arg.type \in AcceptedTypes[source.log_page]
        /\ SelectSeq(requests, is_write) # <<>> =>
               /\ last.exc = "none"
               /\ Len(requests) >= 2
               /\ is_write(requests[Len(requests)])
               /\ is_log_page_fetch(requests[Len(requests) - 1])
        /\ (/\ PyBool(arg.text)
            /\ SelectSeq(requests, is_log_page_fetch) # <<>>
            /\ LogPages[source.log_page].transport = "ok"
            /\ arg.type \notin AcceptedTypes[source.log_page]) =>
               last.exc = "errors.ValueError"

\* C21 happens: a log of a type that only the owner's page accepts is
\* written, after the load() that reading log_page_url called and the fetch
\* of the page
C21_Witness ==
    /\ last.op = "post_log" /\ arg.type = <<"a", "r", "c", "h", "i", "v", "e">>
    /\ source.log_page = "OwnerLogPage"
    /\ Len(requests) = 3 /\ is_write(requests[3]) /\ last.loads = 1

(***************************************************************************)
(* load() as a whole (Spec).                                               *)
(***************************************************************************)
\* C22: load() is all or nothing: when it returns, all eighteen
\* lazily-loaded attributes are set; when it raises, for whatever reason,
\* no attribute of the cache has changed.
C22_LoadIsAllOrNothing ==
    last.op = "load" =>
        IF last.exc = "none"
        THEN \A a \in LazyAttrs : hasattr(self, a)
        ELSE last.changed = {}

====
